---- MODULE Spec2Model ----
(***************************************************************************)
(* Model of the Centia MCP server (src/unnamed/part_002, the build of      *)
(* src/src/index.ts that adds the schema normaliser): the tool generation  *)
(* loop that turns the API description into tools and routing records, the *)
(* list-tools handler and the call-tool handler with its single HTTP call. *)
(*                                                                         *)
(* JavaScript values are tagged records [t, v]; objects keep their entries *)
(* in enumeration order as a sequence of <<key, value>> pairs.  A string   *)
(* whose characters the code inspects (a path template, an argument that   *)
(* is URL-encoded) is read through Chars as a sequence of tokens: a token  *)
(* is one punctuation character or a run of word characters.               *)
(***************************************************************************)
EXTENDS Integers, Sequences, FiniteSets, TLC

(* ---------------------------------------------------------------------- *)
(* JavaScript values                                                       *)
(* ---------------------------------------------------------------------- *)
Undef ==
    [t |-> "undef", v |-> "undefined"]

Null ==
    [t |-> "null", v |-> "null"]

S(s) ==
    [t |-> "str", v |-> s]

N(n) ==
    [t |-> "num", v |-> n]

B(b) ==
    [t |-> "bool", v |-> b]

A(seq) ==
    [t |-> "arr", v |-> seq]

O(pairs) ==
    [t |-> "obj", v |-> pairs]

\* JavaScript truthiness: undefined, null, false, 0 and "" are falsy.
Truthy(x) ==
    /\ x.t \notin {"undef", "null"}
    /\ ~(x.t = "bool" /\ x.v = FALSE)
    /\ ~(x.t = "num" /\ x.v = 0)
    /\ ~(x.t = "str" /\ x.v = "")

\* a || b
Or(a, b) ==
    IF Truthy(a) THEN a ELSE b

Range(seq) ==
    {seq[i] : i \in 1..Len(seq)}

\* Object.entries(x): the entries of an object in enumeration order; of an
\* array, its elements under their indices.
Entries(x) ==
    IF x.t = "obj" THEN x.v
    ELSE IF x.t = "arr" THEN [i \in 1..Len(x.v) |-> <<ToString(i - 1), x.v[i]>>]
    ELSE <<>>

\* Array elements (for ... of over an array).
Elems(x) ==
    IF x.t = "arr" THEN x.v ELSE <<>>

HasKey(x, k) ==
    x.t = "obj" /\ \E i \in 1..Len(x.v) : x.v[i][1] = k

\* x[k], undefined when x has no such own property.
Get(x, k) ==
    IF HasKey(x, k)
    THEN x.v[CHOOSE i \in 1..Len(x.v) : x.v[i][1] = k][2]
    ELSE Undef

\* pairs with pairs[k] = val: an existing key keeps its position, a new key
\* is appended (property assignment on a plain object).
PutPair(pairs, k, val) ==
    IF \E i \in 1..Len(pairs) : pairs[i][1] = k
    THEN [i \in 1..Len(pairs) |-> IF pairs[i][1] = k THEN <<k, val>> ELSE pairs[i]]
    ELSE Append(pairs, <<k, val>>)

\* { ...x, [k]: val }
Put(x, k, val) ==
    O(PutPair(Entries(x), k, val))

RECURSIVE MergePairs(_, _)
\* { ...a, ...b } on entry lists.
MergePairs(a, b) ==
    IF b = <<>> THEN a
    ELSE MergePairs(PutPair(a, b[1][1], b[1][2]), Tail(b))

RECURSIVE DropKeyPairs(_, _)
DropKeyPairs(pairs, k) ==
    IF pairs = <<>> THEN <<>>
    ELSE IF pairs[1][1] = k THEN DropKeyPairs(Tail(pairs), k)
    ELSE <<pairs[1]>> \o DropKeyPairs(Tail(pairs), k)

\* delete x[k]
Delete(x, k) ==
    IF x.t = "obj" THEN O(DropKeyPairs(x.v, k)) ELSE x

RECURSIVE Dedup(_)
\* [...new Set(seq)]: first occurrences, in order.
Dedup(seq) ==
    IF seq = <<>> THEN <<>>
    ELSE LET r == Dedup(SubSeq(seq, 1, Len(seq) - 1))
             x == seq[Len(seq)]
         IN  IF x \in Range(r) THEN r ELSE Append(r, x)

(* ---------------------------------------------------------------------- *)
(* Strings as token sequences                                              *)
(* ---------------------------------------------------------------------- *)
\* The strings of the model whose characters are inspected.
CharTable ==
    [x \in {"/items/{id}", "/items", "/a-b", "/a/b", "/f/{n}.{e}",
            "/r/{id}/r/{id}", "/s", "/w", "a/b",
            "#/components/schemas/Item", "#/components/schemas/Missing",
            "#/components/parameters/Lim", "#/components/schemas/Node",
            "#/components/schemas/Pair", "#/defs/schemas/Item", "/n", "/e", "/p", ""} |->
        CASE x = "/items/{id}" -> <<"/", "items", "/", "{", "id", "}">>
          [] x = "/items" -> <<"/", "items">>
          [] x = "/a-b" -> <<"/", "a", "-", "b">>
          [] x = "/a/b" -> <<"/", "a", "/", "b">>
          [] x = "/f/{n}.{e}" -> <<"/", "f", "/", "{", "n", "}", ".", "{", "e", "}">>
          [] x = "/r/{id}/r/{id}" ->
                <<"/", "r", "/", "{", "id", "}", "/", "r", "/", "{", "id", "}">>
          [] x = "/s" -> <<"/", "s">>
          [] x = "/w" -> <<"/", "w">>
          [] x = "a/b" -> <<"a", "/", "b">>
          [] x = "#/components/schemas/Item" ->
                <<"#", "/", "components", "/", "schemas", "/", "Item">>
          [] x = "#/components/schemas/Missing" ->
                <<"#", "/", "components", "/", "schemas", "/", "Missing">>
          [] x = "#/components/parameters/Lim" ->
                <<"#", "/", "components", "/", "parameters", "/", "Lim">>
          [] x = "#/components/schemas/Node" ->
                <<"#", "/", "components", "/", "schemas", "/", "Node">>
          [] x = "#/components/schemas/Pair" ->
                <<"#", "/", "components", "/", "schemas", "/", "Pair">>
          [] x = "#/defs/schemas/Item" ->
                <<"#", "/", "defs", "/", "schemas", "/", "Item">>
          [] x = "/n" -> <<"/", "n">>
          [] x = "/e" -> <<"/", "e">>
          [] x = "/p" -> <<"/", "p">>
          [] x = "" -> <<>>]

Chars(s) ==
    IF s \in DOMAIN CharTable THEN CharTable[s] ELSE <<s>>

\* The first index at which pat occurs in s, 0 when it does not occur.
IndexOf(s, pat) ==
    LET hits == {i \in 1..(Len(s) - Len(pat) + 1) : SubSeq(s, i, i + Len(pat) - 1) = pat}
    IN  IF hits = {} THEN 0 ELSE CHOOSE i \in hits : \A j \in hits : i <= j

\* String.prototype.replace(pat, rep) with a string pattern: the first
\* occurrence only.
Replace(s, pat, rep) ==
    LET i == IndexOf(s, pat)
    IN  IF i = 0 THEN s
        ELSE SubSeq(s, 1, i - 1) \o rep \o SubSeq(s, i + Len(pat), Len(s))

RECURSIVE Split(_, _)
\* s.split(sep) for a one-token separator.
Split(s, sep) ==
    LET i == IndexOf(s, <<sep>>)
    IN  IF i = 0 THEN <<s>>
        ELSE <<SubSeq(s, 1, i - 1)>> \o Split(SubSeq(s, i + 1, Len(s)), sep)

\* The string whose token sequence is toks.
Unchars(toks) ==
    IF Len(toks) = 1 THEN toks[1]
    ELSE IF \E s \in DOMAIN CharTable : CharTable[s] = toks
         THEN CHOOSE s \in DOMAIN CharTable : CharTable[s] = toks
         ELSE "?"

(* ---------------------------------------------------------------------- *)
(* resolveSchema                                                           *)
(* ---------------------------------------------------------------------- *)
\* { type: "string" }, the permissive placeholder.
Placeholder ==
    O(<< <<"type", S("string")>> >>)

\* The result of a call whose recursion exceeds the call stack (RangeError).
Overflow ==
    [t |-> "throw", v |-> "RangeError"]

\* The depth of nested resolveSchema calls the call stack allows.
MaxDepth ==
    6

\* schema.$ref.replace("#/", "").split("/")
RefPath(ref) ==
    Split(Replace(Chars(ref.v), <<"#", "/">>, <<>>), "/")

RECURSIVE WalkThrowing(_, _)
\* Walk without the test of current[segment]: reading a property of
\* undefined throws.
WalkThrowing(current, segs) ==
    IF segs = <<>> THEN current
    ELSE LET next == Get(current, Unchars(segs[1]))
         IN  IF ~Truthy(next) THEN [t |-> "throw", v |-> "TypeError"]
             ELSE WalkThrowing(next, Tail(segs))

RECURSIVE Walk(_, _)
\* The loop over refPath from apiSpec: undefined when a segment is missing.
Walk(current, segs) ==
    IF segs = <<>> THEN current
    ELSE LET next == Get(current, Unchars(segs[1]))
         IN  IF ~Truthy(next) THEN Undef ELSE Walk(next, Tail(segs))

RECURSIVE MergeAllOfFirstWins(_, _, _, _)
RECURSIVE ResolveSchema(_, _, _)
RECURSIVE ResolveProps(_, _, _)
RECURSIVE MergeAllOf(_, _, _, _)

\* resolveSchema(schema) against the API description api, with fuel nested
\* calls left.
ResolveSchema(api, schema, fuel) ==
    IF fuel = 0 THEN Overflow
    ELSE IF ~Truthy(schema) THEN Placeholder
    ELSE IF Truthy(Get(schema, "$ref"))
    THEN LET target == Walk(api, RefPath(Get(schema, "$ref")))
         IN  IF target = Undef THEN Placeholder
             ELSE ResolveSchema(api, target, fuel - 1)
    ELSE IF Truthy(Get(schema, "allOf"))
    THEN MergeAllOf(api, Elems(Get(schema, "allOf")),
                    O(<< <<"type", S("object")>>, <<"properties", O(<<>>)>>,
                         <<"required", A(<<>>)>> >>),
                    fuel - 1)
    ELSE IF Get(schema, "type") = S("object") /\ Truthy(Get(schema, "properties"))
    THEN LET props == ResolveProps(api, Entries(Get(schema, "properties")), fuel - 1)
         IN  IF props = Overflow THEN Overflow ELSE Put(schema, "properties", props)
    ELSE IF Get(schema, "type") = S("array") /\ Truthy(Get(schema, "items"))
    THEN LET it == ResolveSchema(api, Get(schema, "items"), fuel - 1)
         IN  IF it = Overflow THEN Overflow ELSE Put(schema, "items", it)
    ELSE schema

\* The loop over Object.entries(schema.properties).
ResolveProps(api, pairs, fuel) ==
    IF pairs = <<>> THEN O(<<>>)
    ELSE LET head == ResolveSchema(api, pairs[1][2], fuel)
             rest == ResolveProps(api, Tail(pairs), fuel)
         IN  IF head = Overflow \/ rest = Overflow THEN Overflow
             ELSE O(<< <<pairs[1][1], head>> >> \o rest.v)

\* MergeAllOf with the spreads of line 52 in the other order,
\* { ...resolved.properties, ...merged.properties }: the earlier branch's
\* property stays.
MergeAllOfFirstWins(api, branches, merged, fuel) ==
    IF branches = <<>> THEN merged
    ELSE LET resolved == ResolveSchema(api, branches[1], fuel)
             m1 == IF Truthy(Get(resolved, "properties"))
                   THEN Put(merged, "properties",
                            O(MergePairs(Entries(Get(resolved, "properties")),
                                         Entries(Get(merged, "properties")))))
                   ELSE merged
             m2 == IF Truthy(Get(resolved, "required"))
                   THEN Put(m1, "required",
                            A(Dedup(Elems(Get(m1, "required"))
                                    \o Elems(Get(resolved, "required")))))
                   ELSE m1
         IN  IF resolved = Overflow THEN Overflow
             ELSE MergeAllOfFirstWins(api, Tail(branches), m2, fuel)

\* The loop over schema.allOf, merged being the accumulator.
MergeAllOf(api, branches, merged, fuel) ==
    IF branches = <<>> THEN merged
    ELSE LET resolved == ResolveSchema(api, branches[1], fuel)
             m1 == IF Truthy(Get(resolved, "properties"))
                   THEN Put(merged, "properties",
                            O(MergePairs(Entries(Get(merged, "properties")),
                                         Entries(Get(resolved, "properties")))))
                   ELSE merged
             m2 == IF Truthy(Get(resolved, "required"))
                   THEN Put(m1, "required",
                            A(Dedup(Elems(Get(m1, "required"))
                                    \o Elems(Get(resolved, "required")))))
                   ELSE m1
         IN  IF resolved = Overflow THEN Overflow
             ELSE MergeAllOf(api, Tail(branches), m2, fuel)

(* ---------------------------------------------------------------------- *)
(* sanitizeSchemaForMCP                                                    *)
(* ---------------------------------------------------------------------- *)
\* A number is "num" (a small integer), "big" (v = k stands for the number
\* of magnitude Number.MAX_SAFE_INTEGER + |k| - 1 and the sign of k) or
\* "inf" (non-finite).
IsNumber(x) ==
    x.t \in {"num", "big", "inf"}

\* Unsafe without the magnitude test.
UnsafeNonFiniteOnly(x) ==
    x.t = "inf"

\* !Number.isFinite(v) || Math.abs(v) > Number.MAX_SAFE_INTEGER
Unsafe(x) ==
    x.t = "inf" \/ (x.t = "big" /\ (x.v > 1 \/ x.v < -1))

NumericKeys ==
    {"example", "default", "maximum", "minimum", "exclusiveMaximum",
     "exclusiveMinimum", "multipleOf", "const"}

AnnotationKeys ==
    {"example", "examples", "deprecated", "readOnly", "writeOnly", "xml",
     "style", "explode", "nullable"}

CompositionKeys ==
    {"allOf", "anyOf", "oneOf"}

RECURSIVE SanitizeSchemaForMCP(_)
SanitizeSchemaForMCP(schema) ==
    IF schema.t \in {"undef", "null"} THEN schema
    ELSE IF schema.t = "arr"
    THEN A([i \in 1..Len(schema.v) |-> SanitizeSchemaForMCP(schema.v[i])])
    ELSE IF schema.t # "obj" THEN schema
    ELSE LET KeepKey(p) ==
                 /\ ~(p[1] \in NumericKeys /\ IsNumber(p[2]) /\ Unsafe(p[2]))
                 /\ p[1] \notin AnnotationKeys
             SafeMember(m) == ~(IsNumber(m) /\ Unsafe(m))
             EnumOf(p) == SelectSeq(p[2].v, SafeMember)
             KeepEnum(p) == ~(p[1] = "enum" /\ p[2].t = "arr" /\ Len(EnumOf(p)) = 0)
             clone == SelectSeq(SelectSeq(schema.v, KeepKey), KeepEnum)
             SanProps(x) ==
                 LET e == Entries(x)
                 IN  O([i \in 1..Len(e) |-> <<e[i][1], SanitizeSchemaForMCP(e[i][2])>>])
             San(p) ==
                 IF p[1] = "enum" /\ p[2].t = "arr" THEN A(EnumOf(p))
                 ELSE IF p[1] = "properties" /\ p[2].t \in {"obj", "arr"}
                 THEN SanProps(p[2])
                 ELSE IF p[1] = "items" /\ Truthy(p[2]) THEN SanitizeSchemaForMCP(p[2])
                 ELSE IF p[1] \in CompositionKeys /\ p[2].t = "arr"
                 THEN SanitizeSchemaForMCP(p[2])
                 ELSE p[2]
         IN  O([i \in 1..Len(clone) |-> <<clone[i][1], San(clone[i])>>])

RECURSIVE SanitizeWritesInPlace(_, _)
\* SanitizeWrites with const clone = schema in place of the copy: the
\* deletes and assignments go to the node of the input.
SanitizeWritesInPlace(schema, path) ==
    IF schema.t = "arr"
    THEN {<<"new", path>>}
         \cup UNION {SanitizeWritesInPlace(schema.v[i], Append(path, ToString(i - 1))) :
                     i \in 1..Len(schema.v)}
    ELSE IF schema.t # "obj" THEN {}
    ELSE {<<"input", path>>}
         \cup UNION {
                IF e[1] = "enum" /\ e[2].t = "arr"
                THEN {<<"new", Append(path, "enum")>>}
                ELSE IF e[1] = "properties" /\ e[2].t \in {"obj", "arr"}
                THEN {<<"new", Append(path, "properties")>>}
                     \cup UNION {SanitizeWritesInPlace(q[2], path \o <<"properties", q[1]>>) :
                                 q \in Range(Entries(e[2]))}
                ELSE IF e[1] = "items" /\ Truthy(e[2])
                THEN SanitizeWritesInPlace(e[2], Append(path, "items"))
                ELSE IF e[1] \in CompositionKeys /\ e[2].t = "arr"
                THEN SanitizeWritesInPlace(e[2], Append(path, e[1]))
                ELSE {} :
                e \in Range(schema.v)}

RECURSIVE SanitizeWrites(_, _)
\* The objects and arrays sanitizeSchemaForMCP(schema) creates, assigns to
\* or deletes from, schema being the node under path of the value the
\* outermost call was given: <<"input", p>> is the node of that value under
\* p, <<"new", p>> the one the call working on that node creates (the array
\* of schema.map, clone, the filtered enum, newProps, the array of the
\* composition list's map).  clone is the target of every delete and of
\* every assignment but newProps[k] = ..., whose target is newProps.
SanitizeWrites(schema, path) ==
    IF schema.t = "arr"
    THEN {<<"new", path>>}
         \cup UNION {SanitizeWrites(schema.v[i], Append(path, ToString(i - 1))) :
                     i \in 1..Len(schema.v)}
    ELSE IF schema.t # "obj" THEN {}
    ELSE {<<"new", path>>}
         \cup UNION {
                IF e[1] = "enum" /\ e[2].t = "arr"
                THEN {<<"new", Append(path, "enum")>>}
                ELSE IF e[1] = "properties" /\ e[2].t \in {"obj", "arr"}
                THEN {<<"new", Append(path, "properties")>>}
                     \cup UNION {SanitizeWrites(q[2], path \o <<"properties", q[1]>>) :
                                 q \in Range(Entries(e[2]))}
                ELSE IF e[1] = "items" /\ Truthy(e[2])
                THEN SanitizeWrites(e[2], Append(path, "items"))
                ELSE IF e[1] \in CompositionKeys /\ e[2].t = "arr"
                THEN SanitizeWrites(e[2], Append(path, e[1]))
                ELSE {} :
                e \in Range(schema.v)}

(* ---------------------------------------------------------------------- *)
(* normalizeJsonSchemaForMCP                                               *)
(* ---------------------------------------------------------------------- *)
AllowedKeys ==
    {"type", "properties", "required", "description", "enum", "items",
     "anyOf", "oneOf", "allOf", "const", "default", "minimum", "maximum",
     "exclusiveMinimum", "exclusiveMaximum", "multipleOf", "minLength",
     "maxLength", "pattern", "format", "minItems", "maxItems", "uniqueItems",
     "contains", "additionalProperties", "patternProperties", "title"}

FormatWhitelist ==
    {"email", "uri", "uuid", "ipv4", "ipv6", "date-time", "date", "time"}

ValidTypes ==
    {"string", "number", "integer", "boolean", "object", "array", "null"}

\* ConstraintKeys with the keywords that describe without constraining.
ConstraintKeysLoose ==
    {"type", "enum", "const", "anyOf", "oneOf", "allOf", "properties", "items",
     "format", "description", "title"}

ConstraintKeys ==
    {"type", "enum", "const", "anyOf", "oneOf", "allOf", "properties", "items"}

RECURSIVE SetUniq(_)
\* Array.from(new Set(seq)): primitives are the same value when equal, an
\* object or array only when it is the same reference (never, after parsing).
SetUniq(seq) ==
    IF seq = <<>> THEN <<>>
    ELSE LET r == SetUniq(SubSeq(seq, 1, Len(seq) - 1))
             x == seq[Len(seq)]
         IN  IF x.t \notin {"obj", "arr"} /\ x \in Range(r) THEN r ELSE Append(r, x)

RECURSIVE NormalizeJsonSchemaForMCP(_)
NormalizeJsonSchemaForMCP(schema) ==
    IF schema.t \in {"undef", "null"} THEN Undef
    ELSE IF schema.t = "arr"
    THEN A([i \in 1..Len(schema.v) |-> NormalizeJsonSchemaForMCP(schema.v[i])])
    ELSE IF schema.t # "obj" THEN schema
    ELSE LET Allowed(p) == p[1] \in AllowedKeys
             IsValidType(x) == x.t = "str" /\ x.v \in ValidTypes
             IsString(x) == x.t = "str"
             Norm(x) == NormalizeJsonSchemaForMCP(SanitizeSchemaForMCP(x))
             NormList(x) ==
                 SelectSeq([i \in 1..Len(x.v) |-> Norm(x.v[i])], Truthy)
             NormProps(x) ==
                 LET e == Entries(x)
                     HasNorm(q) == Truthy(q[2])
                 IN  SelectSeq([i \in 1..Len(e) |-> <<e[i][1], Norm(e[i][2])>>], HasNorm)
             \* The value the key is left with, Undef standing for a deleted key.
             Val(p) ==
                 IF p[1] = "type" /\ p[2].t = "arr"
                 THEN LET filtered == SelectSeq(p[2].v, IsValidType)
                      IN  IF Len(filtered) > 0 THEN A(filtered) ELSE Undef
                 ELSE IF p[1] = "type"
                 THEN IF IsValidType(p[2]) THEN p[2] ELSE Undef
                 ELSE IF p[1] = "format" /\ p[2].t = "str" /\ p[2].v \notin FormatWhitelist
                 THEN Undef
                 ELSE IF p[1] = "required" /\ Truthy(p[2])
                 THEN IF p[2].t # "arr" THEN Undef
                      ELSE LET onlyStrings == SelectSeq(p[2].v, IsString)
                           IN  IF Len(onlyStrings) > 0 THEN A(SetUniq(onlyStrings))
                               ELSE Undef
                 ELSE IF p[1] = "properties" /\ p[2].t \in {"obj", "arr"}
                 THEN LET newProps == NormProps(p[2])
                      IN  IF Len(newProps) = 0 THEN Undef ELSE O(newProps)
                 ELSE IF p[1] = "items" /\ Truthy(p[2]) THEN Norm(p[2])
                 ELSE IF p[1] \in CompositionKeys /\ p[2].t = "arr"
                 THEN LET list == NormList(p[2])
                      IN  IF Len(list) = 0 THEN Undef ELSE A(list)
                 ELSE IF p[1] = "enum" /\ p[2].t = "arr"
                 THEN LET uniq == SetUniq(p[2].v)
                      IN  IF Len(uniq) > 0 THEN A(uniq) ELSE Undef
                 ELSE p[2]
             kept == SelectSeq(schema.v, Allowed)
             Present(q) == q[2] # Undef
             result == SelectSeq([i \in 1..Len(kept) |-> <<kept[i][1], Val(kept[i])>>],
                                 Present)
             hasConstraints == \E i \in 1..Len(result) : result[i][1] \in ConstraintKeys
         IN  IF hasConstraints THEN O(result)
             ELSE O(Append(result, <<"type", S("string")>>))

(* ---------------------------------------------------------------------- *)
(* Tool generation                                                         *)
(* ---------------------------------------------------------------------- *)
\* A value used as a property key or inside a template literal: String(x).
KeyOf(x) ==
    IF x.t = "str" THEN x.v
    ELSE IF x.t = "num" THEN ToString(x.v)
    ELSE IF x.t = "bool" THEN (IF x.v THEN "true" ELSE "false")
    ELSE x.v

\* The tokens \W matches besides "/": every token that is not a run of word
\* characters.
NonWord ==
    {"/", "-", "{", "}", ".", "#", " ", ":", "$", "%"}

\* pathStr.replace(/[\/\W]/g, '_')
SanitizePath(toks) ==
    [i \in 1..Len(toks) |-> IF toks[i] \in NonWord THEN "_" ELSE toks[i]]

\* op.operationId || `${method}${pathStr.replace(/[\/\W]/g, '_')}`
OperationId(op, method, pathStr) ==
    IF Truthy(Get(op, "operationId"))
    THEN Chars(KeyOf(Get(op, "operationId")))
    ELSE <<method>> \o SanitizePath(Chars(pathStr))

\* op.description || op.summary || `Execute ${method.toUpperCase()} ${pathStr}`
Description(op, method, pathStr) ==
    Or(Or(Get(op, "description"), Get(op, "summary")),
       [t |-> "tpl", v |-> <<"Execute", "upper", method, pathStr>>])

\* The fresh toolMeta of an operation.
NewToolMeta(method, pathStr) ==
    [method |-> method, path |-> pathStr, pathParams |-> <<>>, queryParams |-> <<>>,
     headerParams |-> <<>>, bodyParams |-> <<>>, isBodyFlattened |-> FALSE]

\* The rest of an iteration of the loop over parameters once the schema is
\* normalised: st holds properties (entry list), required, toolMeta and
\* whether a resolveSchema call has thrown.
ParamAssign(st, resolvedParam, normalizedParamSchema) ==
    [st EXCEPT
        !.properties = PutPair(@, KeyOf(Get(resolvedParam, "name")),
                               Put(normalizedParamSchema, "description",
                                   Or(Get(resolvedParam, "description"),
                                      Get(normalizedParamSchema, "description")))),
        !.required = IF Truthy(Get(resolvedParam, "required"))
                     THEN Append(@, KeyOf(Get(resolvedParam, "name"))) ELSE @,
        !.meta = [st.meta EXCEPT
            !.pathParams = IF Get(resolvedParam, "in") = S("path")
                           THEN Append(@, KeyOf(Get(resolvedParam, "name"))) ELSE @,
            !.queryParams = IF Get(resolvedParam, "in") = S("query")
                            THEN Append(@, KeyOf(Get(resolvedParam, "name"))) ELSE @,
            !.headerParams = IF Get(resolvedParam, "in") = S("header")
                             THEN Append(@, KeyOf(Get(resolvedParam, "name"))) ELSE @]]

\* The iteration from the resolved schema of the parameter on.
ParamWithSchema(st, resolvedParam, paramSchema) ==
    IF paramSchema = Overflow THEN [st EXCEPT !.threw = TRUE]
    ELSE ParamAssign(st, resolvedParam,
                     NormalizeJsonSchemaForMCP(SanitizeSchemaForMCP(paramSchema)))

\* The iteration from the resolved parameter on.
ParamResolved(api, st, resolvedParam) ==
    IF resolvedParam = Overflow THEN [st EXCEPT !.threw = TRUE]
    ELSE ParamWithSchema(st, resolvedParam,
                         ResolveSchema(api, Get(resolvedParam, "schema"), MaxDepth))

\* One iteration of the loop over parameters.
ParamStep(api, st, param) ==
    IF st.threw THEN st
    ELSE ParamResolved(api, st,
                       IF Truthy(Get(param, "$ref"))
                       THEN ResolveSchema(api, param, MaxDepth) ELSE param)

RECURSIVE ParamLoop(_, _, _)
ParamLoop(api, st, params) ==
    IF params = <<>> THEN st
    ELSE ParamLoop(api, ParamStep(api, st, params[1]), Tail(params))

RECURSIVE FlattenLoop(_, _)
\* The loop over Object.entries(bodySchema.properties).
FlattenLoop(st, pairs) ==
    IF pairs = <<>> THEN st
    ELSE FlattenLoop(
            [st EXCEPT
                !.properties = PutPair(@, pairs[1][1],
                    NormalizeJsonSchemaForMCP(SanitizeSchemaForMCP(pairs[1][2]))),
                !.meta = [st.meta EXCEPT !.bodyParams = Append(@, pairs[1][1])]],
            Tail(pairs))

\* required.push(...list)
PushAll(required, list) ==
    required \o [i \in 1..Len(Elems(list)) |-> KeyOf(Elems(list)[i])]

\* The flattened branch: st is the state after the loop over the body's
\* properties.
BodyFlattened(st, bodySchema) ==
    [st EXCEPT !.required = IF Truthy(Get(bodySchema, "required"))
                            THEN PushAll(@, Get(bodySchema, "required")) ELSE @]

\* BodyWrapped without the test of requestBody.required: requestBody is
\* never pushed onto required.
BodyWrappedNeverRequired(st, requestBody, bodySchema) ==
    [st EXCEPT
        !.properties = PutPair(@, "requestBody",
            NormalizeJsonSchemaForMCP(SanitizeSchemaForMCP(bodySchema))),
        !.meta = [st.meta EXCEPT !.bodyParams = Append(@, "requestBody")]]

\* The wrapped branch.
BodyWrapped(st, requestBody, bodySchema) ==
    [st EXCEPT
        !.properties = PutPair(@, "requestBody",
            NormalizeJsonSchemaForMCP(SanitizeSchemaForMCP(bodySchema))),
        !.meta = [st.meta EXCEPT !.bodyParams = Append(@, "requestBody")],
        !.required = IF Truthy(Get(requestBody, "required"))
                     THEN Append(@, "requestBody") ELSE @]

\* The request body part from the resolved body schema on.
BodyResolved(st, requestBody, bodySchema) ==
    IF bodySchema = Overflow THEN [st EXCEPT !.threw = TRUE]
    ELSE IF Get(bodySchema, "type") = S("object") /\ Truthy(Get(bodySchema, "properties"))
    THEN BodyFlattened(
            FlattenLoop([st EXCEPT !.meta = [st.meta EXCEPT !.isBodyFlattened = TRUE]],
                        Entries(Get(bodySchema, "properties"))),
            bodySchema)
    ELSE BodyWrapped(st, requestBody, bodySchema)

\* requestBody?.content?.["application/json"]?.schema
BodySchemaOf(requestBody) ==
    Get(Get(Get(requestBody, "content"), "application/json"), "schema")

\* The request body part of an operation's iteration.
BodyStep(api, st, requestBody) ==
    IF st.threw \/ ~Truthy(BodySchemaOf(requestBody)) THEN st
    ELSE BodyResolved(st, requestBody,
                      ResolveSchema(api, BodySchemaOf(requestBody), MaxDepth))

\* RequiredEntry without the length test: required: [...new Set(required)]
RequiredEntryAlways(uniq) ==
    << <<"required", A([i \in 1..Len(uniq) |-> S(uniq[i])])>> >>

\* ...(required.length > 0 ? { required: [...new Set(required)] } : {})
RequiredEntry(uniq) ==
    IF Len(uniq) > 0
    THEN << <<"required", A([i \in 1..Len(uniq) |-> S(uniq[i])])>> >>
    ELSE <<>>

\* inputSchema: { type: "object", properties, ...required }
InputSchema(properties, required) ==
    O(<< <<"type", S("object")>>, <<"properties", O(properties)>> >>
      \o RequiredEntry(Dedup(required)))

\* [...pathItem.parameters || [], ...op.parameters || []]
Parameters(pathItem, op) ==
    Elems(Or(Get(pathItem, "parameters"), A(<<>>)))
    \o Elems(Or(Get(op, "parameters"), A(<<>>)))

\* properties, required and toolMeta as an operation's iteration starts.
NewState(method, pathStr) ==
    [properties |-> <<>>, required |-> <<>>,
     meta |-> NewToolMeta(method, pathStr), threw |-> FALSE]

\* The tool pushed and the routing record set at the end of an iteration.
Generated(name, description, st) ==
    [name |-> name,
     tool |-> [name |-> name, description |-> description,
               inputSchema |-> InputSchema(st.properties, st.required)],
     meta |-> st.meta,
     threw |-> st.threw]

\* The body of the inner loop for one (method, operation) entry of a path
\* item.
GenOperation(api, pathStr, pathItem, method, op) ==
    Generated(OperationId(op, method, pathStr),
              Description(op, method, pathStr),
              BodyStep(api,
                       ParamLoop(api, NewState(method, pathStr), Parameters(pathItem, op)),
                       Get(op, "requestBody")))

RECURSIVE FlatOps(_)
\* The (path, path item, method, operation) entries the two nested loops
\* visit, in order, "parameters" entries skipped.
FlatOps(pathEntries) ==
    IF pathEntries = <<>> THEN <<>>
    ELSE LET pathStr == pathEntries[1][1]
             pathItem == pathEntries[1][2]
             IsOp(e) == e[1] # "parameters"
             es == SelectSeq(Entries(pathItem), IsOp)
         IN  [i \in 1..Len(es) |->
                [path |-> pathStr, item |-> pathItem, method |-> es[i][1], op |-> es[i][2]]]
             \o FlatOps(Tail(pathEntries))

Operations(api) ==
    FlatOps(Entries(Get(api, "paths")))

\* map.set(k, val) on a Map modelled as a function.
MapSet(map, k, val) ==
    [x \in DOMAIN map \cup {k} |-> IF x = k THEN val ELSE map[x]]

\* tools.push(tool); operationMap.set(name, toolMeta)
Push(acc, g) ==
    IF g.threw THEN [acc EXCEPT !.threw = TRUE]
    ELSE [tools |-> Append(acc.tools, g.tool),
          operationMap |-> MapSet(acc.operationMap, g.name, g.meta),
          threw |-> FALSE]

RECURSIVE GenLoop(_, _, _)
\* The generation loop from the state acc on over the entries ops.
GenLoop(api, ops, acc) ==
    IF ops = <<>> \/ acc.threw THEN acc
    ELSE GenLoop(api, Tail(ops),
                 Push(acc, GenOperation(api, ops[1].path, ops[1].item,
                                        ops[1].method, ops[1].op)))

EmptyMap ==
    [x \in {} |-> Undef]

\* tools and operationMap after the module's top-level loop.
Generate(api) ==
    GenLoop(api, Operations(api), [tools |-> <<>>, operationMap |-> EmptyMap, threw |-> FALSE])

(* ---------------------------------------------------------------------- *)
(* API descriptions                                                        *)
(* ---------------------------------------------------------------------- *)
Param(name, in, required, schema) ==
    O(<< <<"name", S(name)>>, <<"in", S(in)>>, <<"required", B(required)>>,
         <<"schema", schema>> >>)

TypeOnly(type) ==
    O(<< <<"type", S(type)>> >>)

Ref(target) ==
    O(<< <<"$ref", S(target)>> >>)

JsonBody(required, schema) ==
    O(<< <<"required", B(required)>>,
         <<"content", O(<< <<"application/json", O(<< <<"schema", schema>> >>)>> >>)>> >>)

\* components of every API description of the model.
Components ==
    O(<< <<"schemas", O(<<
            <<"Item", O(<< <<"type", S("object")>>,
                           <<"properties", O(<<
                               <<"name", O(<< <<"type", S("string")>>,
                                              <<"example", S("bolt")>> >>)>>,
                               <<"qty", O(<< <<"type", S("integer")>>,
                                             <<"maximum", [t |-> "big", v |-> 2]>> >>)>> >>)>>,
                           <<"required", A(<<S("name")>>)>> >>)>>,
            <<"Node", O(<< <<"type", S("object")>>,
                           <<"properties", O(<<
                               <<"label", TypeOnly("string")>>,
                               <<"next", Ref("#/components/schemas/Node")>> >>)>> >>)>>,
            <<"Either", O(<< <<"anyOf", A(<<Ref("#/components/schemas/Item"),
                                            TypeOnly("string")>>)>> >>)>>,
            <<"Pair", O(<< <<"allOf", A(<<Ref("#/components/schemas/Item"),
                                          O(<< <<"type", S("object")>>,
                                               <<"properties", O(<<
                                                   <<"qty", TypeOnly("string")>>,
                                                   <<"tag", Ref("#/defs/schemas/Item")>> >>)>>,
                                               <<"required", A(<<S("name"), S("tag")>>)>> >>)
                                          >>)>> >>)>> >>)>>,
         <<"parameters", O(<<
            <<"Lim", Param("limit", "query", FALSE, TypeOnly("integer"))>> >>)>> >>)

\* The path items the API descriptions of the model are assembled from.
PathPool ==
    << <<"/items/{id}", O(<<
            <<"parameters", A(<<Param("id", "path", TRUE, TypeOnly("integer"))>>)>>,
            <<"get", O(<< <<"operationId", S("getItem")>>,
                          <<"parameters",
                            A(<<Param("X-Trace", "header", FALSE, TypeOnly("string"))>>)>> >>)>>,
            <<"delete", O(<< <<"summary", S("Delete an item")>> >>)>> >>)>>,
       <<"/items", O(<<
            <<"post", O(<< <<"operationId", S("createItem")>>,
                           <<"requestBody",
                             JsonBody(TRUE, Ref("#/components/schemas/Item"))>> >>)>>,
            <<"get", O(<< <<"parameters",
                            A(<<Ref("#/components/parameters/Lim"),
                                Param("q", "query", TRUE, TypeOnly("string"))>>)>> >>)>> >>)>>,
       <<"/a-b", O(<< <<"get", O(<< <<"summary", S("ab")>> >>)>> >>)>>,
       <<"/a/b", O(<< <<"get", O(<< <<"description", S("a b")>> >>)>>,
                      <<"parameters", A(<<>>)>> >>)>>,
       <<"/s", O(<<
            <<"parameters", A(<<Param("q", "query", TRUE, TypeOnly("string"))>>)>>,
            <<"post", O(<<
                <<"operationId", S("search")>>,
                <<"parameters",
                  A(<<Param("q", "header", FALSE, TypeOnly("string")),
                      Param("c", "cookie", TRUE, TypeOnly("string")),
                      Param("Authorization", "header", FALSE, TypeOnly("string"))>>)>>,
                <<"requestBody",
                  JsonBody(FALSE,
                    O(<< <<"type", S("object")>>,
                         <<"properties", O(<<
                             <<"q", TypeOnly("string")>>,
                             <<"z", O(<< <<"type", S("string")>>,
                                         <<"format", S("binary")>> >>)>> >>)>>,
                         <<"required", A(<<S("z")>>)>> >>))>> >>)>> >>)>>,
       <<"/w", O(<<
            <<"put", O(<<
                <<"operationId", S("putW")>>,
                <<"requestBody",
                  JsonBody(TRUE,
                    O(<< <<"type", S("array")>>,
                         <<"items", Ref("#/components/schemas/Missing")>> >>))>> >>)>> >>)>>,
       <<"/f/{n}.{e}", O(<<
            <<"get", O(<<
                <<"operationId", S("getF")>>,
                <<"parameters",
                  A(<<Param("n", "path", TRUE, TypeOnly("string")),
                      Param("e", "path", TRUE, TypeOnly("string"))>>)>> >>)>> >>)>>,
       <<"/r/{id}/r/{id}", O(<<
            <<"get", O(<<
                <<"operationId", S("getR")>>,
                <<"parameters",
                  A(<<Param("id", "path", TRUE, TypeOnly("string"))>>)>> >>)>> >>)>>,
       <<"/x", O(<< <<"post", O(<< <<"operationId", S("getItem")>> >>)>> >>)>>,
       <<"/n", O(<<
            <<"post", O(<<
                <<"operationId", S("postNode")>>,
                <<"requestBody",
                  JsonBody(TRUE, Ref("#/components/schemas/Node"))>> >>)>> >>)>>,
       <<"/e", O(<<
            <<"post", O(<<
                <<"operationId", S("postPair")>>,
                <<"parameters",
                  A(<<O(<< <<"name", S("either")>>, <<"in", S("query")>>,
                           <<"schema", O(<< <<"anyOf",
                                A(<<Ref("#/components/schemas/Item"),
                                    TypeOnly("string")>>)>> >>)>> >>),
                      O(<< <<"name", S("free")>>, <<"in", S("query")>> >>)>>)>>,
                <<"requestBody",
                  JsonBody(FALSE, Ref("#/components/schemas/Pair"))>> >>)>> >>)>>,
       <<"/p", O(<<
            <<"parameters", A(<<Param("v", "query", TRUE, TypeOnly("integer")),
                                Param("w", "query", FALSE, TypeOnly("string"))>>)>>,
            <<"get", O(<<
                <<"operationId", S("getP")>>,
                <<"parameters",
                  A(<<Param("v", "header", FALSE, TypeOnly("string")),
                      Param("k", "cookie", FALSE, TypeOnly("string"))>>)>> >>)>>,
            <<"head", O(<<
                <<"operationId", S("headP")>>,
                <<"parameters",
                  A(<<Param("w", "query", TRUE, TypeOnly("boolean"))>>)>> >>)>>,
            <<"put", O(<<
                <<"operationId", S("putP")>>,
                <<"requestBody", JsonBody(FALSE, TypeOnly("string"))>> >>)>>,
            <<"patch", O(<<
                <<"operationId", S("patchP")>>,
                <<"requestBody",
                  JsonBody(TRUE,
                    O(<< <<"type", S("object")>>,
                         <<"properties", O(<< <<"a", TypeOnly("string")>> >>)>>,
                         <<"required", A(<<S("a"), S("b")>>)>> >>))>> >>)>> >>)>> >>

\* Schema nodes nested in the schema nodes of SchemaNodes.
LeafLoose ==
    O(<< <<"type", S("file")>>, <<"maximum", [t |-> "inf", v |-> 1]>>,
         <<"x-foo", N(1)>>, <<"deprecated", B(TRUE)>> >>)

LeafEmpty ==
    O(<<>>)

LeafInt ==
    O(<< <<"type", S("integer")>>, <<"minimum", [t |-> "big", v |-> -1]>>,
         <<"default", N(0)>>, <<"multipleOf", [t |-> "big", v |-> -2]>> >>)

\* The entry lists a schema node of SchemaNodes takes its type from, its
\* numeric keywords, its enum, its nested schemas and its other keywords.
TypeEntries ==
    {<<>>,
     << <<"type", S("string")>> >>,
     << <<"type", S("file")>> >>,
     << <<"type", A(<<S("string"), S("foo"), S("null")>>)>> >>,
     << <<"type", A(<<S("foo")>>)>> >>}

NumericEntries ==
    {<<>>,
     << <<"maximum", N(5)>>, <<"minimum", [t |-> "big", v |-> 1]>> >>,
     << <<"maximum", [t |-> "big", v |-> 2]>>, <<"minLength", N(1)>> >>,
     << <<"example", N(5)>>, <<"const", [t |-> "inf", v |-> -1]>> >>}

EnumEntries ==
    {<<>>,
     << <<"enum", A(<<N(1), [t |-> "big", v |-> 2], S("a"), N(1)>>)>> >>,
     << <<"enum", A(<<[t |-> "inf", v |-> 1]>>)>> >>}

NestedEntries ==
    {<<>>,
     << <<"properties", O(<< <<"a", LeafLoose>>, <<"example", LeafInt>> >>)>> >>,
     << <<"properties", O(<<>>)>>, <<"anyOf", A(<<>>)>> >>,
     << <<"items", LeafLoose>> >>,
     << <<"oneOf", A(<<LeafInt, LeafEmpty>>)>> >>,
     << <<"additionalProperties", LeafLoose>> >>}

OtherEntries ==
    {<<>>,
     << <<"format", S("email")>>, <<"description", S("d")>> >>,
     << <<"format", S("binary")>>, <<"nullable", B(TRUE)>>, <<"x-internal", B(TRUE)>> >>,
     << <<"required", A(<<S("a"), N(1), S("a")>>)>> >>,
     << <<"required", A(<<N(1)>>)>>, <<"title", S("t")>> >>,
     << <<"required", B(TRUE)>>, <<"pattern", S("x")>> >>,
     << <<"required", B(FALSE)>> >>}

\* The schema nodes SpecSchema puts through resolve, sanitize and normalize.
SchemaNodes ==
    {O(t \o n \o e \o c \o x) :
        t \in TypeEntries, n \in NumericEntries, e \in EnumEntries,
        c \in NestedEntries, x \in OtherEntries}

\* The API description with the one operation POST /t, whose parameter p has
\* the schema node.
SchemaDoc(node) ==
    O(<< <<"paths", O(<< <<"/t", O(<< <<"post", O(<<
            <<"operationId", S("t")>>,
            <<"parameters", A(<<O(<< <<"name", S("p")>>, <<"in", S("query")>>,
                                    <<"schema", node>> >>)>>)>> >>)>> >>)>> >>)>>,
         <<"components", Components>> >>)

\* What the load leaves when centia-api.json is missing or is not JSON:
\* readFileSync or JSON.parse throws.
Unreadable ==
    [t |-> "throw", v |-> "load"]

\* The API description whose paths are the pool's entries idx, in that order.
Doc(idx) ==
    O(<< <<"paths", O([i \in 1..Len(idx) |-> PathPool[idx[i]]])>>,
         <<"components", Components>> >>)

\* The largest number of path items in an API description of SpecGen.
MaxPaths ==
    2

RECURSIVE DistinctSeqs(_)
\* The sequences of n distinct pool indices.
DistinctSeqs(n) ==
    IF n = 0 THEN {<<>>}
    ELSE {Append(c[1], c[2]) :
            c \in {d \in DistinctSeqs(n - 1) \X (1..Len(PathPool)) : d[2] \notin Range(d[1])}}

\* The path selections of the API descriptions SpecGen generates tools from.
GenDocs ==
    UNION {DistinctSeqs(n) : n \in 1..MaxPaths}

(* ---------------------------------------------------------------------- *)
(* The call-tool handler: building the request                             *)
(* ---------------------------------------------------------------------- *)
\* process.env.API_BASE_URL || "https://api.centia.io"
API_BASE_URL ==
    "https://api.centia.io"

RECURSIVE StringOf(_)
RECURSIVE JoinComma(_)
\* String(x), as tokens.
StringOf(x) ==
    IF x.t = "str" THEN Chars(x.v)
    ELSE IF x.t = "num" THEN <<ToString(x.v)>>
    ELSE IF x.t = "bool" THEN (IF x.v THEN <<"true">> ELSE <<"false">>)
    ELSE IF x.t = "obj" THEN <<"[object Object]">>
    ELSE IF x.t = "arr" THEN JoinComma(x.v)
    ELSE <<x.v>>

\* Array.prototype.join(","): null and undefined elements give "".
JoinComma(elems) ==
    IF elems = <<>> THEN <<>>
    ELSE (IF elems[1].t \in {"null", "undef"} THEN <<>> ELSE StringOf(elems[1]))
         \o (IF Len(elems) > 1 THEN <<",">> \o JoinComma(Tail(elems)) ELSE <<>>)

\* The percent-escape of one token; the unreserved characters and the runs
\* of word characters are kept.
EscapeToken(tok) ==
    CASE tok = "/" -> "%2F"
      [] tok = "{" -> "%7B"
      [] tok = "}" -> "%7D"
      [] tok = " " -> "%20"
      [] tok = "#" -> "%23"
      [] tok = ":" -> "%3A"
      [] tok = "$" -> "%24"
      [] tok = "%" -> "%25"
      [] tok = "," -> "%2C"
      [] tok = "[object Object]" -> "%5Bobject%20Object%5D"
      [] OTHER -> tok

EncodeURIComponent(toks) ==
    [i \in 1..Len(toks) |-> EscapeToken(toks[i])]

\* `{${paramName}}`
Braced(paramName) ==
    <<"{">> \o Chars(paramName) \o <<"}">>

\* One iteration of the loop over toolMeta.pathParams.
PathParamStep(url, safeArgs, paramName) ==
    IF Get(safeArgs, paramName) # Undef
    THEN Replace(url, Braced(paramName),
                 EncodeURIComponent(StringOf(Get(safeArgs, paramName))))
    ELSE Replace(Replace(url, <<"/">> \o Braced(paramName), <<>>),
                 Braced(paramName), <<>>)

RECURSIVE PathParamLoop(_, _, _)
PathParamLoop(url, safeArgs, names) ==
    IF names = <<>> THEN url
    ELSE PathParamLoop(PathParamStep(url, safeArgs, names[1]), safeArgs, Tail(names))

\* The request URL: base URL, path template, path parameters substituted.
BuildUrl(meta, safeArgs) ==
    PathParamLoop(Chars(API_BASE_URL) \o Chars(meta.path), safeArgs, meta.pathParams)

RECURSIVE QueryLoopTruthy(_, _, _)
\* QueryLoop with the argument tested for truthiness instead of against
\* undefined.
QueryLoopTruthy(params, safeArgs, names) ==
    IF names = <<>> THEN params
    ELSE QueryLoopTruthy(IF Truthy(Get(safeArgs, names[1]))
                         THEN MapSet(params, names[1], Get(safeArgs, names[1]))
                         ELSE params,
                         safeArgs, Tail(names))

RECURSIVE QueryLoop(_, _, _)
\* The loop over toolMeta.queryParams filling config.params.
QueryLoop(params, safeArgs, names) ==
    IF names = <<>> THEN params
    ELSE QueryLoop(IF Get(safeArgs, names[1]) # Undef
                   THEN MapSet(params, names[1], Get(safeArgs, names[1]))
                   ELSE params,
                   safeArgs, Tail(names))

RECURSIVE HeaderLoop(_, _, _)
\* The loop over toolMeta.headerParams filling config.headers.
HeaderLoop(headers, safeArgs, names) ==
    IF names = <<>> THEN headers
    ELSE HeaderLoop(IF Get(safeArgs, names[1]) # Undef
                    THEN MapSet(headers, names[1], StringOf(Get(safeArgs, names[1])))
                    ELSE headers,
                    safeArgs, Tail(names))

\* `Bearer ${API_TOKEN}`
Bearer(token) ==
    <<"Bearer ">> \o StringOf(token)

\* config.headers after the API_TOKEN test.
AuthHeaders(token) ==
    IF Truthy(token) THEN MapSet(EmptyMap, "Authorization", Bearer(token)) ELSE EmptyMap

RECURSIVE BodyLoop(_, _, _)
\* The loop over toolMeta.bodyParams filling the flattened body.
BodyLoop(body, safeArgs, names) ==
    IF names = <<>> THEN body
    ELSE BodyLoop(IF Get(safeArgs, names[1]) # Undef
                  THEN PutPair(body, names[1], Get(safeArgs, names[1]))
                  ELSE body,
                  safeArgs, Tail(names))

\* BuildData with the whole arguments object passed through as the wrapped
\* body: config.data = safeArgs.
BuildDataWholeArgs(meta, safeArgs) ==
    IF Len(meta.bodyParams) > 0
    THEN IF meta.isBodyFlattened
         THEN O(BodyLoop(<<>>, safeArgs, meta.bodyParams))
         ELSE safeArgs
    ELSE Undef

\* config.data, undefined when the handler does not set it.
BuildData(meta, safeArgs) ==
    IF Len(meta.bodyParams) > 0
    THEN IF meta.isBodyFlattened
         THEN O(BodyLoop(<<>>, safeArgs, meta.bodyParams))
         ELSE Get(safeArgs, "requestBody")
    ELSE Undef

\* The argument of the axios call: { ...config, url }.
BuildRequest(meta, args, token) ==
    LET safeArgs == Or(args, O(<<>>))
    IN  [method |-> meta.method,
         url |-> BuildUrl(meta, safeArgs),
         headers |-> HeaderLoop(AuthHeaders(token), safeArgs, meta.headerParams),
         params |-> QueryLoop(EmptyMap, safeArgs, meta.queryParams),
         data |-> BuildData(meta, safeArgs)]

(* ---------------------------------------------------------------------- *)
(* The call-tool handler: the result                                       *)
(* ---------------------------------------------------------------------- *)
\* JSON.stringify(x, null, 2): the JSON text of x.
JsonText(x) ==
    [kind |-> "json", of |-> x]

\* A string used as the text as it is.
RawText(message) ==
    [kind |-> "raw", of |-> S(message)]

\* The value returned after a fulfilled axios call.
SuccessResult(response) ==
    [isError |-> FALSE, text |-> JsonText(response.data)]

\* error.response?.data
ErrorData(error) ==
    IF error.hasResponse THEN error.data ELSE Undef

\* ErrorResult with the body tested against undefined instead of for
\* truthiness.
ErrorResultAnyBody(error) ==
    [isError |-> TRUE,
     text |-> IF ErrorData(error) # Undef THEN JsonText(ErrorData(error))
              ELSE RawText(error.message)]

\* The value returned by the catch block.
ErrorResult(error) ==
    [isError |-> TRUE,
     text |-> IF Truthy(ErrorData(error)) THEN JsonText(ErrorData(error))
              ELSE RawText(error.message)]

(* ---------------------------------------------------------------------- *)
(* The server                                                              *)
(* ---------------------------------------------------------------------- *)
VARIABLES
    apiSpec,        \* the parsed API description
    API_TOKEN,      \* process.env.API_TOKEN
    phase,          \* "loading", "serving" or "crashed"
    tools,          \* the tools array
    operationMap,   \* the operationMap, tool name -> toolMeta
    calls,          \* the call-tool requests being handled, by slot
    listed          \* the answer to the latest list-tools request

vars ==
    <<apiSpec, API_TOKEN, phase, tools, operationMap, calls, listed>>

\* The number of call-tool requests that can be in flight at once.
MaxInFlight ==
    2

Slots ==
    1..MaxInFlight

NoRequest ==
    [method |-> "", url |-> <<>>, headers |-> EmptyMap, params |-> EmptyMap, data |-> Undef]

NoOutcome ==
    [kind |-> "none", hasResponse |-> FALSE, data |-> Undef, message |-> ""]

NoResult ==
    [isError |-> FALSE, text |-> [kind |-> "none", of |-> Undef]]

IdleCall ==
    [st |-> "idle", name |-> <<>>, args |-> Undef, request |-> NoRequest, sent |-> 0,
     outcome |-> NoOutcome, result |-> NoResult, error |-> <<>>]

\* The API descriptions the server is run with: under Spec, and under
\* SpecDispatch.
ServerDocs ==
    {<<1, 2>>}

DispatchDocs ==
    {<<1, 2>>, <<5, 6, 7, 8>>, <<3, 4>>}

Tokens ==
    {Undef, S(""), S("secret")}

\* A tool name no API description of the model generates.
UnknownName ==
    <<"nope">>

ArgValues ==
    {S("a/b"), N(0), O(<< <<"k", N(1)>> >>)}

\* The names an invocation of the tool may carry: those its routing record
\* lists, requestBody, and one name no record lists.
ArgNames(meta) ==
    Range(meta.pathParams) \cup Range(meta.queryParams) \cup Range(meta.headerParams)
    \cup Range(meta.bodyParams) \cup {"requestBody", "zz"}

RECURSIVE ArgPairs(_, _)
\* The entries of the arguments object that gives each name n of names the
\* value f[n], names without a value left out.
ArgPairs(f, names) ==
    IF names = {} THEN <<>>
    ELSE LET n == CHOOSE x \in names : TRUE
         IN  (IF f[n] = Undef THEN <<>> ELSE << <<n, f[n]>> >>) \o ArgPairs(f, names \ {n})

\* Every arguments value over the names: undefined, or an object giving some
\* of the names a value.
AllArgs(names) ==
    {Undef} \cup {O(ArgPairs(f, names)) : f \in [names -> ArgValues \cup {Undef}]}

\* Two arguments values over the names: undefined, and every name with
\* the same string value.
SampleArgs(names) ==
    {Undef, O(ArgPairs([n \in names |-> S("a/b")], names))}

Responses ==
    {[data |-> O(<< <<"ok", B(TRUE)>> >>)], [data |-> S("")]}

Errors ==
    {[hasResponse |-> FALSE, data |-> Undef, message |-> "Network Error"],
     [hasResponse |-> TRUE, data |-> O(<< <<"message", S("not found")>> >>),
      message |-> "Request failed with status code 404"],
     [hasResponse |-> TRUE, data |-> S(""),
      message |-> "Request failed with status code 404"],
     [hasResponse |-> TRUE, data |-> B(FALSE),
      message |-> "Request failed with status code 500"]}

\* The responses and errors of the HTTP calls under Spec.
SampleResponses ==
    {r \in Responses : r.data.t = "obj"}

SampleErrors ==
    {e \in Errors : e.data.t # "str"}

\* The state as the process starts, the API description parsed.
Loaded(docs, tokens) ==
    /\ apiSpec \in {Doc(d) : d \in docs} \cup {Unreadable}
    /\ API_TOKEN \in tokens
    /\ phase = "loading"
    /\ tools = <<>>
    /\ operationMap = EmptyMap
    /\ calls = [i \in Slots |-> IdleCall]
    /\ listed = [served |-> FALSE, tools |-> <<>>]

Init ==
    Loaded(ServerDocs, {Undef, S("secret")})

\* Started with the tools taken in the reverse order, as from a collection
\* without a stable order.
StartedUnordered(g) ==
    IF g.threw
    THEN /\ phase' = "crashed"
         /\ UNCHANGED <<tools, operationMap>>
    ELSE /\ phase' = "serving"
         /\ tools' = [k \in 1..Len(g.tools) |-> g.tools[Len(g.tools) + 1 - k]]
         /\ operationMap' = g.operationMap

\* The server state after the generation loop with outcome g.
Started(g) ==
    IF g.threw
    THEN /\ phase' = "crashed"
         /\ UNCHANGED <<tools, operationMap>>
    ELSE /\ phase' = "serving"
         /\ tools' = g.tools
         /\ operationMap' = g.operationMap

\* Startup with the load and the generation loop wrapped in a try/catch that
\* logs and goes on: the server connects with whatever was generated.
StartupServesAnyway ==
    /\ phase = "loading"
    /\ phase' = "serving"
    /\ IF apiSpec = Unreadable
       THEN UNCHANGED <<tools, operationMap>>
       ELSE /\ tools' = Generate(apiSpec).tools
            /\ operationMap' = Generate(apiSpec).operationMap
    /\ UNCHANGED <<apiSpec, API_TOKEN, calls, listed>>

\* The module's top-level code up to main(): the generation loop, then the
\* server connects and serves.
Startup ==
    /\ phase = "loading"
    /\ IF apiSpec = Unreadable
       THEN phase' = "crashed" /\ UNCHANGED <<tools, operationMap>>
       ELSE Started(Generate(apiSpec))
    /\ UNCHANGED <<apiSpec, API_TOKEN, calls, listed>>

\* ListToolsResult answering with the first tool only.
ListToolsFirstOnly(toolList) ==
    SubSeq(toolList, 1, 1)

\* The value the list-tools handler returns.
ListToolsResult(toolList) ==
    toolList

ListTools ==
    /\ phase = "serving"
    /\ listed' = [served |-> TRUE, tools |-> ListToolsResult(tools)]
    /\ UNCHANGED <<apiSpec, API_TOKEN, phase, tools, operationMap, calls>>

\* The call-tool handler for a name operationMap has no entry for: it throws.
CallToolUnknown(i, name, args) ==
    /\ phase = "serving"
    /\ calls[i].st = "idle"
    /\ name \notin DOMAIN operationMap
    /\ calls' = [calls EXCEPT ![i] =
                    [IdleCall EXCEPT !.st = "thrown", !.name = name, !.args = args,
                                     !.error = <<"Tool not found: ">> \o name]]
    /\ UNCHANGED <<apiSpec, API_TOKEN, phase, tools, operationMap, listed>>

\* CallToolKnown with config.params kept at module level: the request
\* starts from the query parameters of the invocations still in flight.
CallToolKnownSharedParams(i, name, args) ==
    /\ phase = "serving"
    /\ calls[i].st = "idle"
    /\ name \in DOMAIN operationMap
    /\ calls' = [calls EXCEPT ![i] =
                    [IdleCall EXCEPT
                        !.st = "pending", !.name = name, !.args = args,
                        !.request =
                            [BuildRequest(operationMap[name], args, API_TOKEN) EXCEPT
                                !.params =
                                    IF \E j \in Slots : calls[j].st = "pending"
                                    THEN calls[CHOOSE j \in Slots : calls[j].st = "pending"]
                                            .request.params
                                    ELSE @],
                        !.sent = 1]]
    /\ UNCHANGED <<apiSpec, API_TOKEN, phase, tools, operationMap, listed>>

\* The call-tool handler for a known name, up to its await: the request is
\* built and handed to axios.
CallToolKnown(i, name, args) ==
    /\ phase = "serving"
    /\ calls[i].st = "idle"
    /\ name \in DOMAIN operationMap
    /\ calls' = [calls EXCEPT ![i] =
                    [IdleCall EXCEPT !.st = "pending", !.name = name, !.args = args,
                                     !.request = BuildRequest(operationMap[name], args, API_TOKEN),
                                     !.sent = 1]]
    /\ UNCHANGED <<apiSpec, API_TOKEN, phase, tools, operationMap, listed>>

\* The axios promise fulfils: the try block returns.
HttpFulfilled(i, response) ==
    /\ calls[i].st = "pending"
    /\ calls' = [calls EXCEPT ![i] =
                    [@ EXCEPT !.st = "returned",
                              !.outcome = [kind |-> "fulfilled", hasResponse |-> TRUE,
                                           data |-> response.data, message |-> ""],
                              !.result = SuccessResult(response)]]
    /\ UNCHANGED <<apiSpec, API_TOKEN, phase, tools, operationMap, listed>>

\* HttpRejected with a retry: the catch block calls axios again.
HttpRejectedRetry(i, error) ==
    /\ calls[i].st = "pending"
    /\ calls[i].sent < 2
    /\ calls' = [calls EXCEPT ![i] = [@ EXCEPT !.sent = @ + 1]]
    /\ UNCHANGED <<apiSpec, API_TOKEN, phase, tools, operationMap, listed>>

\* HttpRejected without the catch block: the rejection leaves the handler as
\* an exception.
HttpRejectedUncaught(i, error) ==
    /\ calls[i].st = "pending"
    /\ calls' = [calls EXCEPT ![i] =
                    [@ EXCEPT !.st = "thrown",
                              !.outcome = [kind |-> "rejected", hasResponse |-> error.hasResponse,
                                           data |-> error.data, message |-> error.message],
                              !.error = <<error.message>>]]
    /\ UNCHANGED <<apiSpec, API_TOKEN, phase, tools, operationMap, listed>>

\* The axios promise rejects: the catch block returns.
HttpRejected(i, error) ==
    /\ calls[i].st = "pending"
    /\ calls' = [calls EXCEPT ![i] =
                    [@ EXCEPT !.st = "returned",
                              !.outcome = [kind |-> "rejected", hasResponse |-> error.hasResponse,
                                           data |-> error.data, message |-> error.message],
                              !.result = ErrorResult(error)]]
    /\ UNCHANGED <<apiSpec, API_TOKEN, phase, tools, operationMap, listed>>

\* The protocol layer sends the handler's result or error to the caller.
Deliver(i) ==
    /\ calls[i].st \in {"returned", "thrown"}
    /\ calls' = [calls EXCEPT ![i] = IdleCall]
    /\ UNCHANGED <<apiSpec, API_TOKEN, phase, tools, operationMap, listed>>

CallNames ==
    DOMAIN operationMap \cup {UnknownName}

NamesOf(name) ==
    IF name \in DOMAIN operationMap THEN ArgNames(operationMap[name]) ELSE {"zz"}

\* A call-tool request arrives while slot i is free.
Accepting(i) ==
    phase = "serving" /\ calls[i].st = "idle"

Next ==
    \/ Startup
    \/ ListTools
    \/ \E i \in Slots : Accepting(i) /\ \E name \in CallNames :
            \E args \in SampleArgs(NamesOf(name)) : CallToolUnknown(i, name, args)
    \/ \E i \in Slots : Accepting(i) /\ \E name \in CallNames :
            \E args \in SampleArgs(NamesOf(name)) : CallToolKnown(i, name, args)
    \/ \E i \in Slots, response \in SampleResponses : HttpFulfilled(i, response)
    \/ \E i \in Slots, error \in SampleErrors : HttpRejected(i, error)
    \/ \E i \in Slots : Deliver(i)

Spec ==
    Init /\ [][Next]_vars

\* One call-tool request at a time, over every arguments value, response
\* and error.
InitDispatch ==
    Loaded(DispatchDocs, Tokens)

NextDispatch ==
    \/ Startup
    \/ ListTools
    \/ Accepting(1) /\ \E name \in CallNames :
            \E args \in AllArgs(NamesOf(name)) : CallToolUnknown(1, name, args)
    \/ Accepting(1) /\ \E name \in CallNames :
            \E args \in AllArgs(NamesOf(name)) : CallToolKnown(1, name, args)
    \/ \E response \in Responses : HttpFulfilled(1, response)
    \/ \E error \in Errors : HttpRejected(1, error)
    \/ Deliver(1)

SpecDispatch ==
    InitDispatch /\ [][NextDispatch]_vars

\* Tool generation alone, over the API descriptions assembled from the pool.
InitGen ==
    Loaded(GenDocs, {Undef})

NextGen ==
    \/ Startup
    \/ ListTools

SpecGen ==
    InitGen /\ [][NextGen]_vars

\* Tool generation over the API descriptions built around one schema node.
InitSchema ==
    /\ apiSpec \in {SchemaDoc(node) : node \in SchemaNodes}
    /\ API_TOKEN = Undef
    /\ phase = "loading"
    /\ tools = <<>>
    /\ operationMap = EmptyMap
    /\ calls = [i \in Slots |-> IdleCall]
    /\ listed = [served |-> FALSE, tools |-> <<>>]

NextSchema ==
    \/ Startup
    \/ ListTools

SpecSchema ==
    InitSchema /\ [][NextSchema]_vars

\* The HTTP client settles the call of slot i: the promise axios returned
\* fulfils or rejects.
HttpCompletes(i) ==
    \/ \E response \in SampleResponses : HttpFulfilled(i, response)
    \/ \E error \in SampleErrors : HttpRejected(i, error)

\* The slots the invocations of SpecLive take: two invocations at a time,
\* enough for their settlements to interleave in both orders.
LiveSlots ==
    {i \in Slots : i <= 2}

NextLive ==
    \/ Startup
    \/ ListTools
    \/ \E i \in LiveSlots : Accepting(i) /\ \E name \in CallNames :
            \E args \in SampleArgs(NamesOf(name)) : CallToolUnknown(i, name, args)
    \/ \E i \in LiveSlots : Accepting(i) /\ \E name \in CallNames :
            \E args \in SampleArgs(NamesOf(name)) : CallToolKnown(i, name, args)
    \/ \E i \in LiveSlots, response \in SampleResponses : HttpFulfilled(i, response)
    \/ \E i \in LiveSlots, error \in SampleErrors : HttpRejected(i, error)
    \/ \E i \in LiveSlots : Deliver(i)

\* The server with an HTTP client that settles every call it is handed.
SpecLive ==
    Init /\ [][NextLive]_vars /\ \A i \in LiveSlots : WF_vars(HttpCompletes(i))

(* ---------------------------------------------------------------------- *)
(* Properties                                                              *)
(* ---------------------------------------------------------------------- *)
\* The calls whose handler has run: awaiting axios, returned or thrown.
Handled ==
    {i \in Slots : calls[i].st # "idle"}

\* The calls whose request has been handed to axios.
Requested ==
    {i \in Slots : calls[i].st \in {"pending", "returned"}}

\* The value the invocation in slot i gives the name n, undefined when it
\* gives none.
ArgOf(i, n) ==
    IF calls[i].args.t = "obj" THEN Get(calls[i].args, n) ELSE Undef

\* C1: an invocation of a name without a Routing Record ends with a normal
\* Invocation Result that carries the error flag and a message; the handler
\* raises no exception for it.
C1_UnknownToolGivesErrorResult ==
    \A i \in Handled :
        calls[i].name \notin DOMAIN operationMap =>
            /\ calls[i].st = "returned"
            /\ calls[i].result.isError
            /\ calls[i].result.text.kind = "raw"

\* C2: every invocation of a name with a Routing Record has issued exactly
\* one HTTP request from its start to its end, also after the request has
\* failed, and an invocation of a name without one has issued none.
C2_OneRequestPerInvocation ==
    \A i \in Slots :
        /\ calls[i].st \in {"pending", "returned"} =>
                calls[i].name \in DOMAIN operationMap /\ calls[i].sent = 1
        /\ calls[i].st = "thrown" =>
                calls[i].name \notin DOMAIN operationMap /\ calls[i].sent = 0
        /\ (calls[i].st # "idle" /\ calls[i].name \in DOMAIN operationMap) =>
                calls[i].sent = 1

\* C2 witness: an invocation of a known tool has returned its error result
\* after its one request failed, while an invocation of an unknown name has
\* thrown.
C2_Witness ==
    \E i, j \in Slots :
        /\ calls[i].st = "returned" /\ calls[i].outcome.kind = "rejected"
        /\ calls[i].sent = 1
        /\ calls[j].st = "thrown" /\ calls[j].sent = 0

\* A response body there is: anything but a missing, null or empty body.
CarriesBody(outcome) ==
    outcome.hasResponse /\ outcome.data.t \notin {"undef", "null"}
    /\ outcome.data # S("")

\* C3 as stated: success gives the body without the error flag; a failed
\* call whose response carries a body gives exactly that body with the
\* flag; a failed call without a body gives the raw error message with the
\* flag.
C3_ResultFollowsOutcome ==
    \A i \in Slots :
        calls[i].st = "returned" =>
            LET o == calls[i].outcome
                r == calls[i].result
            IN  /\ r.isError <=> o.kind = "rejected"
                /\ o.kind = "fulfilled" => r.text = [kind |-> "json", of |-> o.data]
                /\ (o.kind = "rejected" /\ CarriesBody(o)) =>
                        r.text = [kind |-> "json", of |-> o.data]
                /\ (o.kind = "rejected" /\ ~CarriesBody(o)) =>
                        r.text = [kind |-> "raw", of |-> S(o.message)]

\* A response body that JavaScript takes for true: an object, an array, a
\* non-empty string, a number other than 0, or true.
CarriesTruthyBody(outcome) ==
    /\ outcome.hasResponse
    /\ \/ outcome.data.t \in {"obj", "arr"}
       \/ outcome.data.t = "str" /\ outcome.data.v # ""
       \/ outcome.data.t = "num" /\ outcome.data.v # 0
       \/ outcome.data.t = "bool" /\ outcome.data.v

\* C3 amended: as C3, the failed call giving the body only when the body is
\* truthy, and the raw error message when there is no response or the body
\* is missing, null, false, 0 or empty.
C3_ResultFollowsTruthyBody ==
    \A i \in Slots :
        calls[i].st = "returned" =>
            LET o == calls[i].outcome
                r == calls[i].result
            IN  /\ r.isError <=> o.kind = "rejected"
                /\ o.kind = "fulfilled" => r.text = [kind |-> "json", of |-> o.data]
                /\ (o.kind = "rejected" /\ CarriesTruthyBody(o)) =>
                        r.text = [kind |-> "json", of |-> o.data]
                /\ (o.kind = "rejected" /\ ~CarriesTruthyBody(o)) =>
                        r.text = [kind |-> "raw", of |-> S(o.message)]

\* C3 witness: a call has failed with the body {"message": "not found"} and
\* returned that body under the error flag.
C3_Witness ==
    \E i \in Slots :
        /\ calls[i].st = "returned" /\ calls[i].outcome.kind = "rejected"
        /\ calls[i].outcome.data = O(<< <<"message", S("not found")>> >>)
        /\ calls[i].result.isError
        /\ calls[i].result.text = [kind |-> "json", of |-> calls[i].outcome.data]

\* The Routing Record of the invocation in slot i.
RecordOf(i) ==
    operationMap[calls[i].name]

\* The text an argument value is written as in a URL: its string form with
\* every reserved character percent-encoded.
UrlEncoded(value) ==
    EncodeURIComponent(StringOf(value))

RECURSIVE Substituted(_, _, _)
\* The path template toks with every placeholder of a declared path
\* parameter replaced by the URL-encoded argument when the invocation in
\* slot i gives one, and removed together with the '/' before it when not.
Substituted(toks, declared, i) ==
    IF toks = <<>> THEN <<>>
    ELSE IF /\ Len(toks) >= 4
            /\ toks[1] = "/" /\ toks[2] = "{" /\ toks[4] = "}"
            /\ toks[3] \in declared /\ ArgOf(i, toks[3]) = Undef
         THEN Substituted(SubSeq(toks, 5, Len(toks)), declared, i)
    ELSE IF /\ Len(toks) >= 3
            /\ toks[1] = "{" /\ toks[3] = "}"
            /\ toks[2] \in declared
         THEN (IF ArgOf(i, toks[2]) = Undef THEN <<>> ELSE UrlEncoded(ArgOf(i, toks[2])))
              \o Substituted(SubSeq(toks, 4, Len(toks)), declared, i)
    ELSE <<toks[1]>> \o Substituted(Tail(toks), declared, i)

\* The literal placeholder {n} stands somewhere in url.
HasPlaceholder(url, n) ==
    \E k \in 1..(Len(url) - 2) :
        url[k] = "{" /\ url[k + 1] = n /\ url[k + 2] = "}"

\* C4: the URL of every request is the base URL followed by the path
\* template with each declared path parameter's placeholder replaced by the
\* URL-encoded argument, or removed with its preceding '/' when the
\* argument is absent, and no literal {name} of a declared path parameter
\* is left in it.
C4_UrlSubstitutesEveryPathParam ==
    \A i \in Requested :
        /\ calls[i].request.url =
                Chars(API_BASE_URL)
                \o Substituted(Chars(RecordOf(i).path), Range(RecordOf(i).pathParams), i)
        /\ \A n \in Range(RecordOf(i).pathParams) :
                ~HasPlaceholder(calls[i].request.url, n)

\* The names of the bucket that the invocation in slot i gives a value.
Present(i, bucket) ==
    {n \in Range(bucket) : ArgOf(i, n) # Undef}

\* C5: the query parameters of every request are exactly the present
\* arguments of the query bucket with their values; its headers are exactly
\* the present arguments of the header bucket as strings, next to the
\* header the token gives; its body is absent when the body bucket is
\* empty, the object of the present body-bucket arguments when the body was
\* flattened, and the requestBody argument unchanged when it was wrapped.
C5_RequestCarriesPresentArguments ==
    \A i \in Requested :
        /\ DOMAIN calls[i].request.params = Present(i, RecordOf(i).queryParams)
        /\ \A n \in Present(i, RecordOf(i).queryParams) :
                calls[i].request.params[n] = ArgOf(i, n)
        /\ DOMAIN calls[i].request.headers \ {"Authorization"}
                = Present(i, RecordOf(i).headerParams) \ {"Authorization"}
        /\ \A n \in Present(i, RecordOf(i).headerParams) :
                calls[i].request.headers[n] = StringOf(ArgOf(i, n))
        /\ RecordOf(i).bodyParams = <<>> => calls[i].request.data = Undef
        /\ (RecordOf(i).bodyParams # <<>> /\ RecordOf(i).isBodyFlattened) =>
                /\ calls[i].request.data.t = "obj"
                /\ {e[1] : e \in Range(calls[i].request.data.v)}
                        = Present(i, RecordOf(i).bodyParams)
                /\ Len(calls[i].request.data.v)
                        = Cardinality(Present(i, RecordOf(i).bodyParams))
                /\ \A n \in Present(i, RecordOf(i).bodyParams) :
                        Get(calls[i].request.data, n) = ArgOf(i, n)
        /\ (RecordOf(i).bodyParams # <<>> /\ ~RecordOf(i).isBodyFlattened) =>
                calls[i].request.data = ArgOf(i, "requestBody")

\* C5 witness: a request has gone out for a tool with a query bucket, a
\* header bucket and a flattened body, with one body argument present and
\* one absent, and with the query argument 0.
C5_Witness ==
    \E i \in Requested :
        /\ RecordOf(i).queryParams # <<>> /\ RecordOf(i).headerParams # <<>>
        /\ RecordOf(i).isBodyFlattened
        /\ Present(i, RecordOf(i).bodyParams) # {}
        /\ Present(i, RecordOf(i).bodyParams) # Range(RecordOf(i).bodyParams)
        /\ \E n \in Present(i, RecordOf(i).queryParams) : ArgOf(i, n) = N(0)

\* The tool list and the Routing Records are there: generation has finished.
IsGenerated ==
    phase = "serving"

\* C6: no two tools of the generated list have the same name.
C6_ToolNamesAreUnique ==
    IsGenerated =>
        \A j, k \in 1..Len(tools) : j # k => tools[j].name # tools[k].name

\* C7: the tools and the Routing Records are in one-to-one correspondence
\* with the operations of the API description, and the record found under a
\* tool's name is the one generated from the tool's own operation.
C7_ToolsAndRecordsMatchOperations ==
    IsGenerated =>
        /\ Len(tools) = Len(Operations(apiSpec))
        /\ Cardinality(DOMAIN operationMap) = Len(Operations(apiSpec))
        /\ \A k \in 1..Len(tools) :
                /\ tools[k].name \in DOMAIN operationMap
                /\ operationMap[tools[k].name].method = Operations(apiSpec)[k].method
                /\ operationMap[tools[k].name].path = Operations(apiSpec)[k].path

\* How many elements of the sequence names are n.
Occurrences(names, n) ==
    Cardinality({k \in 1..Len(names) : names[k] = n})

\* C8: where tool names are unique, every property name of a tool's input
\* schema stands in exactly one bucket of the tool's Routing Record, and
\* there exactly once.
C8_EveryPropertyInOneBucket ==
    (IsGenerated /\ C6_ToolNamesAreUnique) =>
        \A k \in 1..Len(tools) :
            \A n \in {e[1] : e \in Range(Get(tools[k].inputSchema, "properties").v)} :
                Occurrences(operationMap[tools[k].name].pathParams
                            \o operationMap[tools[k].name].queryParams
                            \o operationMap[tools[k].name].headerParams
                            \o operationMap[tools[k].name].bodyParams, n) = 1

\* C9: with a token configured every request carries the header
\* Authorization: Bearer <token>, whichever tool is invoked with whichever
\* arguments; with none configured the dispatcher adds no Authorization
\* header of its own.
C9_BearerOnEveryRequest ==
    \A i \in Requested :
        IF Truthy(API_TOKEN)
        THEN /\ "Authorization" \in DOMAIN calls[i].request.headers
             /\ calls[i].request.headers["Authorization"]
                    = <<"Bearer ">> \o Chars(API_TOKEN.v)
        ELSE "Authorization" \in DOMAIN calls[i].request.headers =>
                "Authorization" \in Present(i, RecordOf(i).headerParams)

\* C10: once the server serves, no list-tools or call-tool step changes the
\* tool list or a Routing Record, and every list-tools answer is the tool
\* list built at startup.
C10_ToolsFixedAfterStartup ==
    [][phase = "serving" =>
            /\ tools' = tools
            /\ operationMap' = operationMap
            /\ listed'.served => listed'.tools = tools]_vars

\* C10 witness: the tool list has been served while one invocation has
\* returned and another has thrown.
C10_Witness ==
    /\ listed.served /\ listed.tools = tools /\ Len(tools) > 1
    /\ \E i, j \in Slots : calls[i].st = "returned" /\ calls[j].st = "thrown"

\* The error an axios call that ended with outcome rejected with.
ErrorOf(outcome) ==
    [hasResponse |-> outcome.hasResponse, data |-> outcome.data,
     message |-> outcome.message]

\* C11: whatever other invocations are in flight and in whatever order they
\* interleave at the HTTP call, the request of an invocation is the one its
\* own tool name and arguments give under the configuration, and its result
\* is the one its own HTTP outcome gives.
C11_InvocationsAreIndependent ==
    \A i \in Handled :
        /\ calls[i].name \in DOMAIN operationMap =>
                /\ calls[i].st \in {"pending", "returned"}
                /\ calls[i].request =
                        BuildRequest(operationMap[calls[i].name], calls[i].args, API_TOKEN)
        /\ calls[i].name \notin DOMAIN operationMap =>
                /\ calls[i].st = "thrown"
                /\ calls[i].error = <<"Tool not found: ">> \o calls[i].name
        /\ calls[i].st = "returned" =>
                calls[i].result =
                    IF calls[i].outcome.kind = "fulfilled"
                    THEN SuccessResult([data |-> calls[i].outcome.data])
                    ELSE ErrorResult(ErrorOf(calls[i].outcome))

\* C11 witness: two invocations of different requests overlap, the first
\* having failed and returned while the second still awaits its response.
C11_Witness ==
    \E i, j \in Slots :
        /\ calls[i].st = "returned" /\ calls[i].outcome.kind = "rejected"
        /\ calls[j].st = "pending"
        /\ calls[i].request # calls[j].request
        /\ calls[i].request.params # calls[j].request.params

\* A request has been answered: a list-tools answer given or a call-tool
\* invocation taken up.
Served ==
    listed.served \/ Handled # {}

\* C12: a request is served only when generation has completed for every
\* operation of the API description; generation happens once, in the step
\* that leaves the loading phase, and nothing regenerates later; when the
\* API description document is missing or unparsable no request is ever
\* served.
C12_GeneratedOnceBeforeServing ==
    /\ [](Served =>
            /\ phase = "serving"
            /\ apiSpec # Unreadable
            /\ Len(tools) = Len(Operations(apiSpec)))
    /\ [](apiSpec = Unreadable => phase \in {"loading", "crashed"} /\ tools = <<>>)
    /\ [][/\ phase # "loading" => phase' = phase
          /\ (tools' # tools \/ operationMap' # operationMap \/ phase' # phase) =>
                /\ phase = "loading"
                /\ phase' = "serving" =>
                        /\ tools' = Generate(apiSpec).tools
                        /\ operationMap' = Generate(apiSpec).operationMap
                        /\ ~Generate(apiSpec).threw]_vars

\* C12 witness: requests are being served from the tools generated for all
\* four operations of the API description.
C12_Witness ==
    /\ phase = "serving" /\ listed.served /\ Handled # {}
    /\ Len(tools) = 4 /\ Len(Operations(apiSpec)) = 4

\* C12 witness of the abort: the document could not be loaded and the
\* process has ended.
C12_AbortWitness ==
    apiSpec = Unreadable /\ phase = "crashed" /\ ~Served

\* The API description has been loaded and the top-level code has run.
HasStarted ==
    phase # "loading" /\ apiSpec # Unreadable

\* The schema nodes the generation loop hands to resolve for the API
\* description api: the schema of every parameter (absent ones included) and
\* every JSON request body schema.
OperationSchemas(api) ==
    UNION {{Get(IF Truthy(Get(prm, "$ref")) THEN ResolveSchema(api, prm, MaxDepth) ELSE prm,
                "schema") :
                prm \in Range(Parameters(Operations(api)[k].item, Operations(api)[k].op))}
           \cup {b \in {BodySchemaOf(Get(Operations(api)[k].op, "requestBody"))} : Truthy(b)} :
           k \in 1..Len(Operations(api))}

\* C13: resolve ends, for every schema node of the API description the
\* generation resolves, with a schema and not with the failure of an
\* unbounded recursion, also when the node's references lead back to a node
\* being resolved; generation therefore completes for every loaded
\* description.
C13_ResolveTerminatesOnCycles ==
    HasStarted =>
        /\ phase = "serving"
        /\ \A node \in OperationSchemas(apiSpec) :
                ResolveSchema(apiSpec, node, MaxDepth) # Overflow

RECURSIVE RefsIn(_)
\* The targets of the $ref keys of x, at any depth.
RefsIn(x) ==
    IF x.t = "obj"
    THEN UNION {IF e[1] = "$ref" /\ e[2].t = "str" THEN {e[2].v} ELSE RefsIn(e[2]) :
                e \in Range(x.v)}
    ELSE IF x.t = "arr" THEN UNION {RefsIn(e) : e \in Range(x.v)}
    ELSE {}

RECURSIVE Lookup(_, _)
\* The node under the path segs of current, undefined when current has no
\* node under a segment.
Lookup(current, segs) ==
    IF segs = <<>> THEN current
    ELSE IF ~HasKey(current, Unchars(segs[1])) THEN Undef
    ELSE IF ~Truthy(Get(current, Unchars(segs[1]))) THEN Undef
    ELSE Lookup(Get(current, Unchars(segs[1])), Tail(segs))

\* The node the reference r points to in api, undefined when a segment of
\* its path is missing.
TargetOf(api, r) ==
    Lookup(api, RefPath(S(r)))

RECURSIVE RefClosure(_, _, _)
\* The references reachable from refs in at most k steps.
RefClosure(api, refs, k) ==
    IF k = 0 THEN refs
    ELSE RefClosure(api, refs \cup UNION {RefsIn(TargetOf(api, r)) : r \in refs}, k - 1)

\* The reference graph below node has no cycle.
Acyclic(api, node) ==
    \A r \in RefClosure(api, RefsIn(node), Cardinality(RefsIn(api))) :
        r \notin RefClosure(api, RefsIn(TargetOf(api, r)), Cardinality(RefsIn(api)))

\* C14: for every schema node the generation resolves whose reference graph
\* is acyclic, the output of resolve has no $ref key at any depth.
C14_ResolvedHasNoRef ==
    HasStarted =>
        \A node \in OperationSchemas(apiSpec) :
            Acyclic(apiSpec, node) =>
                RefsIn(ResolveSchema(apiSpec, node, MaxDepth)) = {}

\* The references of api whose path has a missing segment.
MissingRefs(api) ==
    {r \in RefsIn(api) : TargetOf(api, r) = Undef}

\* C15: resolve of an absent node is the placeholder { type: "string" }, and
\* resolve of a reference with a missing path segment is the same
\* placeholder; neither ends with an error.
C15_ResolveDegradesToPlaceholder ==
    HasStarted =>
        /\ \A absent \in {Undef, Null} :
                ResolveSchema(apiSpec, absent, MaxDepth) = Placeholder
        /\ \A r \in MissingRefs(apiSpec) :
                ResolveSchema(apiSpec, Ref(r), MaxDepth) = Placeholder
        /\ \A node \in OperationSchemas(apiSpec) :
                (~Truthy(node) \/ (RefsIn(node) # {} /\ RefsIn(node) \subseteq MissingRefs(apiSpec)
                                   /\ Truthy(Get(node, "$ref")))) =>
                    ResolveSchema(apiSpec, node, MaxDepth) = Placeholder

\* C15 witness: tools have been generated from an operation with a
\* parameter without schema and a body property whose reference misses its
\* first segment; both properties are the placeholder.
C15_Witness ==
    /\ phase = "serving"
    /\ "#/defs/schemas/Item" \in MissingRefs(apiSpec)
    /\ \E k \in 1..Len(tools) :
            /\ Get(Get(tools[k].inputSchema, "properties"), "tag") = Placeholder
            /\ Get(Get(Get(tools[k].inputSchema, "properties"), "free"), "type")
                    = S("string")
            /\ Undef \in OperationSchemas(apiSpec)

\* The input schemas of the generated tools' properties.
PropertySchemas ==
    UNION {{e[2] : e \in Range(Get(tools[k].inputSchema, "properties").v)} :
           k \in 1..Len(tools)}

\* The keywords a normalized schema node may carry, and the type names.
AllowList ==
    {"type", "properties", "required", "description", "enum", "items",
     "anyOf", "oneOf", "allOf", "const", "default", "minimum", "maximum",
     "exclusiveMinimum", "exclusiveMaximum", "multipleOf", "minLength",
     "maxLength", "pattern", "format", "minItems", "maxItems", "uniqueItems",
     "contains", "additionalProperties", "patternProperties", "title"}

TypeNames ==
    {"string", "number", "integer", "boolean", "object", "array", "null"}

\* The schema nodes directly inside the schema node x: under properties and
\* patternProperties, under items, contains and additionalProperties, and
\* in the composition lists.
NestedNodes(x) ==
    UNION {IF e[1] \in {"properties", "patternProperties"} /\ e[2].t = "obj"
           THEN {q[2] : q \in Range(e[2].v)}
           ELSE IF e[1] \in {"items", "contains", "additionalProperties"} /\ e[2].t = "obj"
           THEN {e[2]}
           ELSE IF e[1] \in {"items", "anyOf", "oneOf", "allOf"} /\ e[2].t = "arr"
           THEN Range(e[2].v)
           ELSE {} :
           e \in Range(x.v)}

RECURSIVE OnlyAllowed(_)
\* The schema node x and every schema node nested in it have allow-listed
\* keys only and, where they have a type, valid type names only.
OnlyAllowed(x) ==
    x.t = "obj" =>
        /\ \A e \in Range(x.v) : e[1] \in AllowList
        /\ HasKey(x, "type") =>
                \/ Get(x, "type").t = "str" /\ Get(x, "type").v \in TypeNames
                \/ /\ Get(x, "type").t = "arr"
                   /\ \A m \in Range(Get(x, "type").v) : m.t = "str" /\ m.v \in TypeNames
        /\ \A n \in NestedNodes(x) : OnlyAllowed(n)

\* C16: the schema of every property of a generated tool, which is
\* normalize(sanitize(node)) of a resolved node, and every schema node
\* nested in it, has keys of the allow-list only and valid type names only.
C16_NormalizedHasOnlyAllowedKeys ==
    phase = "serving" => \A x \in PropertySchemas : OnlyAllowed(x)

\* The keywords that constrain a schema node.
Constraining ==
    {"type", "enum", "const", "anyOf", "oneOf", "allOf", "properties", "items"}

\* The schema nodes directly inside x that normalize has returned: under
\* properties, under items and in the composition lists.
NormalizedNodes(x) ==
    UNION {IF e[1] = "properties" /\ e[2].t = "obj" THEN {q[2] : q \in Range(e[2].v)}
           ELSE IF e[1] = "items" /\ e[2].t = "obj" THEN {e[2]}
           ELSE IF e[1] \in {"items", "anyOf", "oneOf", "allOf"} /\ e[2].t = "arr"
           THEN Range(e[2].v)
           ELSE {} :
           e \in Range(x.v)}

RECURSIVE Constrained(_)
\* The object node x and every object node normalize returned inside it
\* carry a constraining keyword.
Constrained(x) ==
    x.t = "obj" =>
        /\ \E e \in Range(x.v) : e[1] \in Constraining
        /\ \A n \in NormalizedNodes(x) : Constrained(n)

\* The entry of a schema node constrains nothing once normalized: a type
\* that is no valid type name, or a list of none, or an empty properties,
\* composition or enum container.
Vacuous(e) ==
    \/ e[1] = "type" /\ e[2].t = "str" /\ e[2].v \notin TypeNames
    \/ /\ e[1] = "type" /\ e[2].t = "arr"
       /\ \A m \in Range(e[2].v) : ~(m.t = "str" /\ m.v \in TypeNames)
    \/ e[1] \in {"anyOf", "oneOf", "allOf", "enum"} /\ e[2] = A(<<>>)
    \/ e[1] = "properties" /\ e[2] = O(<<>>)

\* The schema nodes normalize is called with during generation: the
\* resolved and sanitized schemas of the operations' parameters and bodies.
NormalizeInputs(api) ==
    {SanitizeSchemaForMCP(ResolveSchema(api, node, MaxDepth)) :
        node \in OperationSchemas(api)}

\* C17: every object node normalize returns carries one of type, enum,
\* const, anyOf, oneOf, allOf, properties, items, and so does every node it
\* returned inside; a node whose constraining keywords are none, or all
\* removed as invalid or empty, comes back with type "string".
C17_NormalizedIsConstrained ==
    phase = "serving" =>
        /\ \A x \in PropertySchemas : Constrained(x)
        /\ \A x \in NormalizeInputs(apiSpec) :
                x.t = "obj" =>
                    /\ Constrained(NormalizeJsonSchemaForMCP(x))
                    /\ (\A e \in Range(x.v) : e[1] \in Constraining => Vacuous(e)) =>
                            Get(NormalizeJsonSchemaForMCP(x), "type") = S("string")

\* C17 witness: a tool has been generated from a parameter schema whose
\* only constraining keywords are an invalid type and empty containers, and
\* its property has the type "string".
C17_Witness ==
    /\ phase = "serving"
    /\ \E x \in NormalizeInputs(apiSpec) :
            /\ x.t = "obj"
            /\ Get(x, "type") = A(<<S("foo")>>)
            /\ Get(x, "properties") = O(<<>>) /\ Get(x, "anyOf") = A(<<>>)
            /\ HasKey(x, "format")
            /\ \A e \in Range(x.v) : e[1] \in Constraining => Vacuous(e)
    /\ \E x \in PropertySchemas : Get(x, "type") = S("string")

\* A number that is non-finite or of a magnitude above the largest safe
\* integer.
OutOfRange(x) ==
    x.t = "inf" \/ (x.t = "big" /\ (x.v > 1 \/ x.v < -1))

\* The numeric keywords the sanitizer looks at.
NumericKeywords ==
    {"default", "example", "minimum", "maximum", "exclusiveMinimum",
     "exclusiveMaximum", "multipleOf", "const"}

RECURSIVE InRange(_)
\* No numeric keyword and no enum member is out of range in the schema node
\* x, nor in a node reached through properties, items and the composition
\* lists.
InRange(x) ==
    x.t = "obj" =>
        /\ \A e \in Range(x.v) :
                /\ e[1] \in NumericKeywords => ~OutOfRange(e[2])
                /\ (e[1] = "enum" /\ e[2].t = "arr") =>
                        \A m \in Range(e[2].v) : ~OutOfRange(m)
        /\ \A n \in NormalizedNodes(x) : InRange(n)

RECURSIVE Kept(_, _, _)
\* out is the schema node n with the out-of-range numeric keywords and enum
\* members gone (the enum itself when none is left), the keywords of strip
\* gone, and every other keyword in place with its value, the nodes under
\* properties, items and the composition lists being kept in the same way.
Kept(n, out, strip) ==
    IF n.t = "arr"
    THEN /\ out.t = "arr" /\ Len(out.v) = Len(n.v)
         /\ \A i \in 1..Len(n.v) : Kept(n.v[i], out.v[i], strip)
    ELSE IF n.t # "obj" THEN out = n
    ELSE LET InRangeMember(m) == ~OutOfRange(m)
             Survives(e) ==
                 /\ e[1] \notin strip
                 /\ ~(e[1] \in NumericKeywords /\ OutOfRange(e[2]))
                 /\ ~(e[1] = "enum" /\ e[2].t = "arr"
                      /\ SelectSeq(e[2].v, InRangeMember) = <<>>)
             expected == SelectSeq(n.v, Survives)
         IN  /\ out.t = "obj" /\ Len(out.v) = Len(expected)
             /\ \A i \in 1..Len(expected) :
                    /\ out.v[i][1] = expected[i][1]
                    /\ IF expected[i][1] = "enum" /\ expected[i][2].t = "arr"
                       THEN out.v[i][2] = A(SelectSeq(expected[i][2].v, InRangeMember))
                       ELSE IF expected[i][1] = "properties" /\ expected[i][2].t = "obj"
                       THEN /\ out.v[i][2].t = "obj"
                            /\ Len(out.v[i][2].v) = Len(expected[i][2].v)
                            /\ \A j \in 1..Len(expected[i][2].v) :
                                    /\ out.v[i][2].v[j][1] = expected[i][2].v[j][1]
                                    /\ Kept(expected[i][2].v[j][2], out.v[i][2].v[j][2], strip)
                       ELSE IF expected[i][1] \in {"items", "anyOf", "oneOf", "allOf"}
                       THEN Kept(expected[i][2], out.v[i][2], strip)
                       ELSE out.v[i][2] = expected[i][2]

\* The schema nodes sanitize is called with during generation: the resolved
\* schemas of the operations' parameters and bodies.
SanitizeInputs(api) ==
    {ResolveSchema(api, node, MaxDepth) : node \in OperationSchemas(api)}

\* The annotation keywords the sanitizer removes whatever their value.
Annotations ==
    {"example", "examples", "deprecated", "readOnly", "writeOnly", "xml",
     "style", "explode", "nullable"}

\* C18 as stated: the output of sanitize has no out-of-range number under a
\* listed numeric keyword or in an enum, at the root and at every node
\* reached through properties, items and the composition lists, and the
\* in-range values of the listed numeric keywords, example among them, and
\* the structural keywords of each node are kept unchanged.
C18_SanitizeDropsOnlyUnsafeNumbers ==
    phase = "serving" =>
        \A n \in SanitizeInputs(apiSpec) :
            /\ InRange(SanitizeSchemaForMCP(n))
            /\ Kept(n, SanitizeSchemaForMCP(n), Annotations \ {"example"})

\* C18 amended: as C18, the keyword example being removed whatever its
\* value, like the other annotation keywords.
C18_SanitizeDropsUnsafeNumbersAndAnnotations ==
    phase = "serving" =>
        \A n \in SanitizeInputs(apiSpec) :
            /\ InRange(SanitizeSchemaForMCP(n))
            /\ Kept(n, SanitizeSchemaForMCP(n), Annotations)

\* C18 witness: tools have been generated from a parameter schema with an
\* out-of-range maximum next to minLength, an enum with an out-of-range
\* member, and a nested node with a non-finite maximum; sanitize has removed
\* the three numbers and kept minLength and the other enum members.
C18_Witness ==
    /\ phase = "serving"
    /\ \E n \in SanitizeInputs(apiSpec) :
            /\ Get(n, "maximum") = [t |-> "big", v |-> 2]
            /\ Get(n, "items") = LeafLoose
            /\ Get(n, "enum") = A(<<N(1), [t |-> "big", v |-> 2], S("a"), N(1)>>)
            /\ ~HasKey(SanitizeSchemaForMCP(n), "maximum")
            /\ Get(SanitizeSchemaForMCP(n), "minLength") = N(1)
            /\ Get(SanitizeSchemaForMCP(n), "enum") = A(<<N(1), S("a"), N(1)>>)
            /\ ~HasKey(Get(SanitizeSchemaForMCP(n), "items"), "maximum")

ResolvedParams(api, o) ==
    {IF Truthy(Get(prm, "$ref")) THEN ResolveSchema(api, prm, MaxDepth) ELSE prm :
        prm \in Range(Parameters(o.item, o.op))}

\* The resolved JSON body schema of the operation o of api, undefined when
\* it has none.
ResolvedBody(api, o) ==
    IF Truthy(BodySchemaOf(Get(o.op, "requestBody")))
    THEN ResolveSchema(api, BodySchemaOf(Get(o.op, "requestBody")), MaxDepth)
    ELSE Undef

\* The body schema b is an object with properties: its properties become
\* the tool's.
IsFlat(b) ==
    Get(b, "type") = S("object") /\ Truthy(Get(b, "properties"))

\* The names the body b of the operation o contributes to the tool's
\* properties, and those of them that are marked required.
BodyNames(b) ==
    IF b = Undef THEN {}
    ELSE IF IsFlat(b) THEN {e[1] : e \in Range(Entries(Get(b, "properties")))}
    ELSE {"requestBody"}

BodyRequired(b, o) ==
    IF b = Undef THEN {}
    ELSE IF IsFlat(b) THEN {KeyOf(m) : m \in Range(Elems(Get(b, "required")))}
    ELSE IF Truthy(Get(Get(o.op, "requestBody"), "required")) THEN {"requestBody"}
    ELSE {}

\* The names marked required for the operation o of api.
MarkedRequired(api, o) ==
    {KeyOf(Get(q, "name")) : q \in {q \in ResolvedParams(api, o) : Truthy(Get(q, "required"))}}
    \cup BodyRequired(ResolvedBody(api, o), o)

\* The input schema sch is the one of the operation o of api.
IsInputSchemaOf(sch, api, o) ==
    /\ Get(sch, "type") = S("object")
    /\ Get(sch, "properties").t = "obj"
    /\ {e[1] : e \in Range(Get(sch, "properties").v)}
            = {KeyOf(Get(q, "name")) : q \in ResolvedParams(api, o)}
              \cup BodyNames(ResolvedBody(api, o))
    /\ Len(Get(sch, "properties").v)
            = Cardinality({e[1] : e \in Range(Get(sch, "properties").v)})
    /\ IF MarkedRequired(api, o) = {}
       THEN ~HasKey(sch, "required")
       ELSE /\ Get(sch, "required").t = "arr"
            /\ Range(Get(sch, "required").v) = {S(n) : n \in MarkedRequired(api, o)}
            /\ Len(Get(sch, "required").v) = Cardinality(MarkedRequired(api, o))

\* C20: the input schema of every generated tool has the type object and
\* the properties of its operation's parameters and body; its required list
\* has no duplicates and holds exactly the names marked required, and there
\* is no required key when no name is marked.
C20_InputSchemaShape ==
    phase = "serving" =>
        /\ Len(tools) = Len(Operations(apiSpec))
        /\ \A k \in 1..Len(tools) :
                IsInputSchemaOf(tools[k].inputSchema, apiSpec, Operations(apiSpec)[k])

\* C20 witness: the generated tools include one without a required name and
\* one whose required names were marked more than once (q by the path item,
\* z by the body).
C20_Witness ==
    /\ phase = "serving"
    /\ \E k \in 1..Len(tools) : ~HasKey(tools[k].inputSchema, "required")
    /\ \E k \in 1..Len(tools) :
            Get(tools[k].inputSchema, "required") = A(<<S("q"), S("c"), S("z")>>)

\* The names of the entries of the object x, in order.
KeysOf(x) ==
    [i \in 1..Len(Entries(x)) |-> Entries(x)[i][1]]

\* The names of the input schema's required list, none when it has no list.
RequiredOf(sch) ==
    {KeyOf(m) : m \in Range(Elems(Get(sch, "required")))}

\* The tool with input schema sch and the Routing Record meta are those of
\* an operation whose resolved body b is an object with properties: every
\* body property is a tool property holding the body property's schema put
\* through sanitize and normalize, and a routed body field; the record is
\* marked flattened; the body's required names are in the required list.
IsFlattenedBody(sch, meta, b) ==
    /\ meta.isBodyFlattened
    /\ meta.bodyParams = KeysOf(Get(b, "properties"))
    /\ \A e \in Range(Entries(Get(b, "properties"))) :
            /\ HasKey(Get(sch, "properties"), e[1])
            /\ Get(Get(sch, "properties"), e[1])
                    = NormalizeJsonSchemaForMCP(SanitizeSchemaForMCP(e[2]))
    /\ {KeyOf(m) : m \in Range(Elems(Get(b, "required")))} \subseteq RequiredOf(sch)

\* The tool and the record are those of an operation whose resolved body b
\* is anything else: the one property requestBody holds the body schema put
\* through sanitize and normalize, it is required exactly when the request
\* body is, and it is the only routed body field, the record being marked
\* not flattened.
IsWrappedBody(sch, meta, b, requestBody) ==
    /\ ~meta.isBodyFlattened
    /\ meta.bodyParams = <<"requestBody">>
    /\ Get(Get(sch, "properties"), "requestBody")
            = NormalizeJsonSchemaForMCP(SanitizeSchemaForMCP(b))
    /\ "requestBody" \in RequiredOf(sch) <=> Truthy(Get(requestBody, "required"))

\* The tool k and the record under its name follow the body of operation o.
BodyFollowed(k, o, b) ==
    b # Undef =>
        IF IsFlat(b)
        THEN IsFlattenedBody(tools[k].inputSchema, operationMap[tools[k].name], b)
        ELSE IsWrappedBody(tools[k].inputSchema, operationMap[tools[k].name], b,
                           Get(o.op, "requestBody"))

\* C21: for every operation with a JSON request body schema, a resolved body
\* that is an object with properties is flattened (each body property a tool
\* property and a routed body field, the record marked flattened, the
\* body's required names in the required list), and any other body is
\* wrapped (the single property requestBody, required exactly when the body
\* is, the only routed body field, the record marked not flattened).
C21_BodyFlattenedOrWrapped ==
    phase = "serving" =>
        \A k \in 1..Len(tools) :
            BodyFollowed(k, Operations(apiSpec)[k],
                         ResolvedBody(apiSpec, Operations(apiSpec)[k]))

\* C21 witness: the tools generated include one with a flattened body whose
\* required name is in the required list, one with a wrapped body that is
\* required and one with a wrapped body that is not.
C21_Witness ==
    /\ phase = "serving"
    /\ \E k \in 1..Len(tools) :
            /\ operationMap[tools[k].name].isBodyFlattened
            /\ operationMap[tools[k].name].bodyParams = <<"name", "qty">>
            /\ "name" \in RequiredOf(tools[k].inputSchema)
    /\ \E k \in 1..Len(tools) :
            /\ operationMap[tools[k].name].bodyParams = <<"requestBody">>
            /\ Get(Get(tools[k].inputSchema, "properties"), "requestBody")
                    = TypeOnly("string")
            /\ "requestBody" \notin RequiredOf(tools[k].inputSchema)

\* The locations a parameter is routed from.
RoutedLocations ==
    {S("path"), S("query"), S("header")}

\* The names that only parameters of another location declare for the
\* operation o of api, no path, query or header parameter and no body field
\* having the name.
UnroutedOnly(api, o) ==
    {KeyOf(Get(q, "name")) :
        q \in {q \in ResolvedParams(api, o) : Get(q, "in") \notin RoutedLocations}}
    \ ({KeyOf(Get(q, "name")) :
            q \in {q \in ResolvedParams(api, o) : Get(q, "in") \in RoutedLocations}}
       \cup BodyNames(ResolvedBody(api, o)))

\* The names in the buckets of the Routing Record meta.
Routed(meta) ==
    Range(meta.pathParams) \cup Range(meta.queryParams)
    \cup Range(meta.headerParams) \cup Range(meta.bodyParams)

\* C22: a parameter whose location is not path, query or header gives the
\* generated tool no property, no entry of the required list and no entry
\* of a routing bucket.
C22_OtherLocationsContributeNothing ==
    phase = "serving" =>
        \A k \in 1..Len(tools) :
            \A n \in UnroutedOnly(apiSpec, Operations(apiSpec)[k]) :
                /\ ~HasKey(Get(tools[k].inputSchema, "properties"), n)
                /\ n \notin RequiredOf(tools[k].inputSchema)
                /\ n \notin Routed(operationMap[tools[k].name])

\* C23: an invocation of a tool with a Routing Record, its request handed to
\* the HTTP client, ends with an Invocation Result once the client settles
\* the call; until then it has none, it never ends with an exception, the
\* result is either the success payload or the error-flagged payload
\* according to the outcome, and it is given once.
C23_InvocationYieldsOneResult ==
    /\ \A i \in Slots : (calls[i].st = "pending") ~> (calls[i].st = "returned")
    /\ [](\A i \in Slots :
            /\ calls[i].st = "pending" =>
                    calls[i].name \in DOMAIN operationMap /\ calls[i].result = NoResult
            /\ calls[i].st = "thrown" => calls[i].name \notin DOMAIN operationMap
            /\ calls[i].st = "returned" =>
                    /\ calls[i].result.text.kind \in {"json", "raw"}
                    /\ calls[i].result.isError <=> calls[i].outcome.kind = "rejected"
                    /\ ~calls[i].result.isError <=> calls[i].outcome.kind = "fulfilled")
    /\ [][\A i \in Slots :
            /\ calls[i].st = "pending" => calls'[i].st \in {"pending", "returned"}
            /\ calls[i].st = "returned" =>
                    calls'[i] = calls[i] \/ calls'[i].st = "idle"]_vars

\* C23 witness: one invocation has returned the success payload and another
\* the error-flagged payload.
C23_Witness ==
    \E i, j \in Slots :
        /\ calls[i].st = "returned" /\ ~calls[i].result.isError
        /\ calls[i].result.text.kind = "json"
        /\ calls[j].st = "returned" /\ calls[j].result.isError
        /\ calls[i].name \in DOMAIN operationMap /\ calls[j].name \in DOMAIN operationMap

NoDuplicates(seq) ==
    \A i, j \in 1..Len(seq) : i # j => seq[i] # seq[j]

RECURSIVE WellFormed(_)
\* The schema node x, and every node reached from it through properties,
\* items and the composition lists, has no empty properties map, no empty
\* composition list, no empty enum and no enum member twice, and its
\* required, if it has one, is a non-empty list of strings without
\* duplicates.
WellFormed(x) ==
    x.t = "obj" =>
        /\ Get(x, "properties") # O(<<>>)
        /\ \A k \in {"allOf", "anyOf", "oneOf", "enum"} : Get(x, k) # A(<<>>)
        /\ Get(x, "enum").t = "arr" => NoDuplicates(Get(x, "enum").v)
        /\ HasKey(x, "required") =>
                /\ Get(x, "required").t = "arr"
                /\ Get(x, "required").v # <<>>
                /\ \A m \in Range(Get(x, "required").v) : m.t = "str"
                /\ NoDuplicates(Get(x, "required").v)
        /\ \A n \in NormalizedNodes(x) : WellFormed(n)

\* C25: the output of normalize has, at the root and at every node reached
\* through properties, items and the composition lists, no empty properties
\* map, no empty composition list, no empty enum and no duplicate enum
\* member, and required is there only as a non-empty duplicate-free list of
\* strings, any other required value having been dropped.
C25_NormalizedContainersAreNonEmpty ==
    phase = "serving" =>
        \A x \in NormalizeInputs(apiSpec) : WellFormed(NormalizeJsonSchemaForMCP(x))

\* The schema nodes of api that use allOf: among the component schemas and
\* among the nodes the generation resolves.
AllOfNodes(api) ==
    {n \in {e[2] : e \in Range(Entries(Get(Get(api, "components"), "schemas")))}
           \cup OperationSchemas(api) : Truthy(Get(n, "allOf"))}

\* The properties of the resolved branch i of the allOf node.
BranchProperties(api, node, i) ==
    Get(ResolveSchema(api, Get(node, "allOf").v[i], MaxDepth), "properties")

\* The required names of the resolved branch i of the allOf node.
BranchRequired(api, node, i) ==
    Range(Elems(Get(ResolveSchema(api, Get(node, "allOf").v[i], MaxDepth), "required")))

\* The last branch of the allOf node that has the property key.
LastBranchWith(api, node, key) ==
    CHOOSE i \in 1..Len(Get(node, "allOf").v) :
        /\ HasKey(BranchProperties(api, node, i), key)
        /\ \A j \in (i + 1)..Len(Get(node, "allOf").v) :
                ~HasKey(BranchProperties(api, node, j), key)

\* out is the merge of the branches of the allOf node: an object-typed
\* schema with the branches' properties, each from the last branch that has
\* it, and the duplicate-free union of the branches' required names.
IsMergeOf(out, api, node) ==
    /\ KeysOf(out) = <<"type", "properties", "required">>
    /\ Get(out, "type") = S("object")
    /\ Get(out, "properties").t = "obj"
    /\ Range(KeysOf(Get(out, "properties")))
            = UNION {Range(KeysOf(BranchProperties(api, node, i))) :
                     i \in 1..Len(Get(node, "allOf").v)}
    /\ NoDuplicates(KeysOf(Get(out, "properties")))
    /\ \A key \in Range(KeysOf(Get(out, "properties"))) :
            Get(Get(out, "properties"), key)
                = Get(BranchProperties(api, node, LastBranchWith(api, node, key)), key)
    /\ Get(out, "required").t = "arr"
    /\ Range(Get(out, "required").v)
            = UNION {BranchRequired(api, node, i) : i \in 1..Len(Get(node, "allOf").v)}
    /\ NoDuplicates(Get(out, "required").v)

\* C26: resolve of a node with allOf is one object-typed schema whose
\* properties are the resolved branches' properties merged by name in list
\* order, a later branch's property replacing an earlier one of the same
\* name, and whose required list is the duplicate-free union of the
\* branches' required names.
C26_AllOfIsMerged ==
    HasStarted =>
        \A node \in AllOfNodes(apiSpec) :
            IsMergeOf(ResolveSchema(apiSpec, node, MaxDepth), apiSpec, node)

\* C26 witness: a tool has been generated from a body that is an allOf of
\* two branches which both have the property qty and both require name; the
\* tool's qty is the second branch's and name is required once.
C26_Witness ==
    /\ phase = "serving"
    /\ \E node \in AllOfNodes(apiSpec) :
            /\ Len(Get(node, "allOf").v) = 2
            /\ Get(BranchProperties(apiSpec, node, 1), "qty")
                    # Get(BranchProperties(apiSpec, node, 2), "qty")
            /\ S("name") \in BranchRequired(apiSpec, node, 1) \cap BranchRequired(apiSpec, node, 2)
    /\ \E k \in 1..Len(tools) :
            /\ KeysOf(Get(tools[k].inputSchema, "properties"))
                    = <<"either", "free", "name", "qty", "tag">>
            /\ Get(Get(tools[k].inputSchema, "properties"), "qty") = TypeOnly("string")
            /\ Get(tools[k].inputSchema, "required") = A(<<S("name"), S("tag")>>)

\* The parameters of the operation o of api in declaration order, the
\* path-level list first, references resolved.
DeclaredParams(api, o) ==
    [i \in 1..Len(Parameters(o.item, o.op)) |->
        IF Truthy(Get(Parameters(o.item, o.op)[i], "$ref"))
        THEN ResolveSchema(api, Parameters(o.item, o.op)[i], MaxDepth)
        ELSE Parameters(o.item, o.op)[i]]

\* The names the path, query and header parameters of the list declare.
RoutedNames(declared) ==
    {KeyOf(Get(declared[i], "name")) :
        i \in {i \in 1..Len(declared) : Get(declared[i], "in") \in RoutedLocations}}

\* The last parameter of the list that declares the name n.
LastDeclaration(declared, n) ==
    declared[CHOOSE i \in 1..Len(declared) :
                /\ KeyOf(Get(declared[i], "name")) = n
                /\ \A j \in (i + 1)..Len(declared) : KeyOf(Get(declared[j], "name")) # n]

\* The tool property a parameter declaration gives: its schema resolved,
\* sanitized and normalized, under the parameter's description or else the
\* schema's.
PropertyOf(api, prm) ==
    Put(NormalizeJsonSchemaForMCP(SanitizeSchemaForMCP(
            ResolveSchema(api, Get(prm, "schema"), MaxDepth))),
        "description",
        Or(Get(prm, "description"),
           Get(NormalizeJsonSchemaForMCP(SanitizeSchemaForMCP(
                    ResolveSchema(api, Get(prm, "schema"), MaxDepth))),
               "description")))

\* The input schema sch has one property for each name the path, query and
\* header parameters of the list declare and no other, the property of a
\* name being the one its last declaration gives.
HasParamProperties(sch, api, declared) ==
    /\ Len(Get(sch, "properties").v) = Cardinality(RoutedNames(declared))
    /\ \A n \in RoutedNames(declared) :
            /\ HasKey(Get(sch, "properties"), n)
            /\ Get(Get(sch, "properties"), n)
                    = PropertyOf(api, LastDeclaration(declared, n))

\* C27: for an operation without a request body whose path, query and
\* header parameters, the path-level list followed by the operation-level
\* list, declare N distinct names, the tool's input schema has exactly N
\* properties, and the property of a name declared more than once is the
\* one of its last declaration.
C27_OnePropertyPerParameterName ==
    phase = "serving" =>
        \A k \in 1..Len(tools) :
            ResolvedBody(apiSpec, Operations(apiSpec)[k]) = Undef =>
                HasParamProperties(tools[k].inputSchema, apiSpec,
                                   DeclaredParams(apiSpec, Operations(apiSpec)[k]))

\* The arguments args without the names the Routing Record meta does not
\* route.
RoutedArgs(meta, args) ==
    IF args.t # "obj" THEN args
    ELSE LET IsRouted(e) == e[1] \in Routed(meta)
         IN  O(SelectSeq(args.v, IsRouted))

\* Arguments of another invocation of the tool that agree with args on
\* every name meta routes: the routed ones alone, and the routed ones with
\* any values for the names zz and requestBody where meta does not route
\* them.
AgreeingArgs(meta, args) ==
    {RoutedArgs(meta, args)}
    \cup {O(Entries(RoutedArgs(meta, args)) \o ArgPairs(f, {"zz", "requestBody"} \ Routed(meta))) :
            f \in [{"zz", "requestBody"} \ Routed(meta) -> ArgValues \cup {Undef}]}

\* C28: the request of an invocation is the request of every invocation of
\* the same tool whose arguments agree with its own on the names in the
\* buckets of the tool's Routing Record (requestBody among them when the
\* body is wrapped): an argument the record does not route reaches neither
\* the URL nor the query string, the headers or the body.
C28_UnroutedArgumentsNeverReachRequest ==
    \A i \in Requested :
        \A other \in AgreeingArgs(RecordOf(i), calls[i].args) :
            BuildRequest(RecordOf(i), other, API_TOKEN) = calls[i].request

\* C28 witness: a request has gone out for a tool with a flattened body
\* whose invocation gave values to zz and to requestBody, which the record
\* does not route, next to a routed body argument.
C28_Witness ==
    \E i \in Requested :
        /\ ArgOf(i, "zz") # Undef
        /\ RecordOf(i).isBodyFlattened
        /\ ArgOf(i, "requestBody") # Undef
        /\ Present(i, RecordOf(i).bodyParams) # {}
        /\ ~HasKey(calls[i].request.data, "zz")
        /\ ~HasKey(calls[i].request.data, "requestBody")

\* C29: every name in the required list of a generated tool's input schema
\* is a key of the schema's properties, the names a flattened request
\* body's own required list contributes included.
C29_RequiredNamesAreProperties ==
    phase = "serving" =>
        \A k \in 1..Len(tools) :
            RequiredOf(tools[k].inputSchema)
                \subseteq Range(KeysOf(Get(tools[k].inputSchema, "properties")))

\* The declaration that supplied the final schema of the property n of the
\* operation o, whose resolved body is b, marks n required: the body field
\* when the flattened body has the field, the request body when n is the
\* wrapped body, and else the last parameter declaration of the name.
FinalMarksRequired(api, o, b, n) ==
    IF b # Undef /\ IsFlat(b) /\ HasKey(Get(b, "properties"), n)
    THEN S(n) \in Range(Elems(Get(b, "required")))
    ELSE IF b # Undef /\ ~IsFlat(b) /\ n = "requestBody"
    THEN Truthy(Get(Get(o.op, "requestBody"), "required"))
    ELSE Truthy(Get(LastDeclaration(DeclaredParams(api, o), n), "required"))

\* C30: a property name of a generated tool is in the required list if and
\* only if the declaration that supplied the property's final schema marks
\* it required; a declaration shadowed by a later one of the same name does
\* not make the name required.
C30_RequiredFollowsFinalDeclaration ==
    phase = "serving" =>
        \A k \in 1..Len(tools) :
            \A n \in Range(KeysOf(Get(tools[k].inputSchema, "properties"))) :
                n \in RequiredOf(tools[k].inputSchema)
                    <=> FinalMarksRequired(apiSpec, Operations(apiSpec)[k],
                                           ResolvedBody(apiSpec, Operations(apiSpec)[k]), n)

====
